---- MODULE Spec2Model ----
(***************************************************************************)
(* Verification model of the yoga-pose feedback programs.                  *)
(*                                                                         *)
(* SpecCompare : the comparison engines applied to angle maps              *)
(*               (api.py compare_pose, server.py get_feedback, the camera  *)
(*               loops of poses/app.py and with_login/app.py, and          *)
(*               live_test.py compare_feedback).                           *)
(*                                                                         *)
(* SpecAccuracy: compare_pose with the default tolerance on larger maps.    *)
(* SpecAngle   : the angle functions applied to three points of a grid     *)
(*               (calc_angle of api.py, poses/app.py and with_login/app.py;*)
(*               angle_between_points of test.py and live_test.py).        *)
(* SpecExtract : the angle extractors (compute_key_angles of api.py and    *)
(*               the angle loop of test.py process_image).                 *)
(* SpecRequest : one request, frame or image through an entry point        *)
(*               (api.py compare_pose and upload_pose, server.py           *)
(*               handle_video_stream, one iteration of the camera loops,   *)
(*               live_test.py overlay_feedback).                           *)
(* SpecCamera  : poses/app.py as threads: the camera loop, a feedback      *)
(*               reader and reference uploads, interleaved statement by    *)
(*               statement.                                                *)
(* SpecSocket  : the socket events of server.py (connect, add_pose,        *)
(*               select_pose, video_stream) in any order.                  *)
(* SpecReference: reference uploads of the in-memory variants              *)
(*               (poses/app.py and pose_demo/test/app.py index, server.py  *)
(*               handle_add_pose), with and without a detected pose.       *)
(* SpecTemp    : two compare_pose requests of api.py interleaved around    *)
(*               the shared temporary image file.                          *)
(*                                                                         *)
(* Units.  Angles are whole degrees.  A tolerance band is kept in          *)
(* hundredths of a degree, so that `percent/100 * |angle|` is the integer  *)
(* percent * |angle| and every comparison of the code is exact.  An        *)
(* accuracy is kept in hundredths of a percent, the resolution of          *)
(* round(x, 2).  A cosine is kept in millionths, truncated toward zero;    *)
(* the float an angle function returns is kept as the pair of whole        *)
(* degrees that bracket it (floor and ceil), equal when it is a whole      *)
(* number of degrees.                                                      *)
(***************************************************************************)
EXTENDS Integers, Sequences, FiniteSets, TLC

VARIABLES
    pc,                  \* which operation has run: "start" or its name
    ref_angles,          \* reference angle map (ref_angles / ideal_angles / template_angles)
    new_angles,          \* current angle map (new_angles / current_angles / cur_angles / live_angles)
    tolerance,           \* api.py: the request's "tolerance" form field, in percent
    tolerance_degrees,   \* joint -> band applied to it, hundredths of a degree
    adjustments,         \* api.py: adjustments_needed
    live_joint_feedback, \* api.py: live_feedback
    total_joints,        \* api.py: accuracy denominator
    correct_joints,      \* api.py: accuracy numerator
    pose_accuracy,       \* api.py: pose_accuracy, hundredths of a percent
    audio_feedback,      \* api.py: "correct" / "wrong"
    feedback,            \* server.py get_feedback / live_test.py compare_feedback result
    feedback_list,       \* camera loops: the messages of the comparison
    color_map,           \* camera loops: joint -> "red" / "green"
    pt_a, pt_b, pt_c,    \* the arguments a, b (the vertex), c of an angle function
    cosine,              \* the values handed to the inverse cosine, millionths: <<>> or <<x>>
    angle,               \* the value an angle function returned
    pts,                 \* MediaPipe snapshot: the list of landmarks
    points,              \* OpenPose snapshot: name -> (x, y) or None
    angles,              \* the angle map an extractor returned
    form,                \* compare_pose: the form fields of the request
    img,                 \* what cv2.imread / cv2.imdecode returned: "image" or None
    row,                 \* api.py: cur.fetchone(), <<>> (None) or <<angles>>
    ideal_pose,          \* server.py: <<>> when current_pose_name is not in IDEAL_POSES,
                         \* else <<IDEAL_POSES[current_pose_name]>>
    response,            \* what the entry point answered: [status, error]
    trace,               \* the stages the entry point ran, in order
    skeleton_lines,      \* api.py skeleton_lines / the lines overlay_feedback drew
    stored,              \* upload_pose: the rows inserted into poses
    reference_joints,    \* poses/app.py global: <<>> (None) or <<pts>>
    reference_angles,    \* poses/app.py global: <<>> (None) or <<angles>>
    latest_feedback,     \* poses/app.py global: the messages joined, <<>> is ""
    feedback_lock,       \* who holds feedback_lock: "free", "camera" or "reader"
    cam_pc,              \* the camera loop's position
    frames,              \* the frames the camera loop has read
    ref_checked,         \* the reference that `if reference_angles:` saw
    ref_used,            \* the reference that `reference_angles.items()` iterated
    last_published,      \* the messages of the frame that published last
    reader_pc,           \* feedback_text's position
    read_value,          \* what feedback_text returned
    expected_read,       \* last_published when feedback_text read
    upload_pc,           \* index's position
    upload_pts,          \* index: the local pts of the upload in progress
    uploads,             \* the uploads index has started
    circles,             \* the joint circles the camera loop drew: key -> [landmark, x, y]
    reference_points,    \* pose_demo/test/app.py global: <<>> (None) or <<points>>
    created,             \* the reference each identifier had when an upload created it
    IDEAL_POSES,         \* server.py IDEAL_POSES: <<name, angles>> pairs in insertion order
    current_pose_name,   \* server.py global
    selected_pose,       \* the stored name of the last select_pose that named one
    compared_with,       \* what the last video_stream frame was compared against
    temp_file,           \* api.py: the content of uploads/temp.jpg
    req_pc,              \* the position of each concurrent compare_pose request
    req_image,           \* the image each concurrent request uploaded
    req_decoded          \* the image each concurrent request decoded

compareVars == <<ref_angles, new_angles, tolerance, tolerance_degrees, adjustments,
                 live_joint_feedback, total_joints, correct_joints, pose_accuracy,
                 audio_feedback, feedback, feedback_list, color_map>>

angleVars == <<pt_a, pt_b, pt_c, cosine, angle>>

extractVars == <<pts, points, angles>>

requestVars == <<form, img, row, ideal_pose, response, trace, skeleton_lines, stored>>

cameraVars == <<reference_joints, reference_angles, latest_feedback, feedback_lock,
                cam_pc, frames, ref_checked, ref_used, last_published,
                reader_pc, read_value, expected_read, upload_pc, upload_pts, uploads>>

storeVars == <<reference_points, created, IDEAL_POSES, current_pose_name, selected_pose,
               compared_with, temp_file, req_pc, req_image, req_decoded>>

vars == <<pc, compareVars, angleVars, extractVars, requestVars, cameraVars, circles,
          storeVars>>

-----------------------------------------------------------------------------
(* Bounds of the model *)

\* how many joints of the catalog the angle maps of SpecCompare range over
NumJoints == 3

\* how many joints of the catalog the angle maps of SpecAccuracy range over
NumAccuracyJoints == 5

\* the points of SpecAngle have coordinates k / MaxCoord (normalized) or k (pixels),
\* k in 0..MaxCoord
MaxCoord == 2

\* how many landmarks of a snapshot vary in SpecExtract (the others are fixed)
NumVaried == 6

-----------------------------------------------------------------------------
(* Helpers *)

Abs(x) == IF x < 0 THEN -x ELSE x

\* Python's None where the other values are points or angles
None == <<>>

\* Python's None where the other values are strings or numbers
NoneStr == "None"

\* the empty dict {}
EmptyMap == [j \in {} |-> 0]

\* hundredths per unit
Scale == 100

-----------------------------------------------------------------------------
(* Values of the variables a specification does not use *)

IdleCompare ==
    /\ ref_angles = EmptyMap
    /\ new_angles = EmptyMap
    /\ tolerance = 0
    /\ tolerance_degrees = EmptyMap
    /\ adjustments = <<>>
    /\ live_joint_feedback = <<>>
    /\ total_joints = 0
    /\ correct_joints = 0
    /\ pose_accuracy = 0
    /\ audio_feedback = NoneStr
    /\ feedback = EmptyMap
    /\ feedback_list = <<>>
    /\ color_map = EmptyMap

IdleAngle ==
    /\ pt_a = <<0, 0>>
    /\ pt_b = <<0, 0>>
    /\ pt_c = <<0, 0>>
    /\ cosine = <<>>
    /\ angle = None

IdleExtract ==
    /\ pts = <<>>
    /\ points = EmptyMap
    /\ angles = EmptyMap

IdleRequest ==
    /\ form = NoneStr
    /\ img = NoneStr
    /\ row = <<>>
    /\ ideal_pose = <<>>
    /\ response = [status |-> 0, error |-> NoneStr]
    /\ trace = <<>>
    /\ skeleton_lines = <<>>
    /\ stored = <<>>

IdleCamera ==
    /\ reference_joints = <<>>
    /\ reference_angles = <<>>
    /\ latest_feedback = <<>>
    /\ feedback_lock = "free"
    /\ cam_pc = "idle"
    /\ frames = 0
    /\ ref_checked = <<>>
    /\ ref_used = <<>>
    /\ last_published = <<>>
    /\ reader_pc = "idle"
    /\ read_value = <<>>
    /\ expected_read = <<>>
    /\ upload_pc = "idle"
    /\ upload_pts = <<>>
    /\ uploads = 0
    /\ circles = <<>>

IdleStore ==
    /\ reference_points = <<>>
    /\ created = <<>>
    /\ IDEAL_POSES = <<>>
    /\ current_pose_name = ""
    /\ selected_pose = ""
    /\ compared_with = <<>>
    /\ temp_file = NoneStr
    /\ req_pc = <<>>
    /\ req_image = <<>>
    /\ req_decoded = <<>>

-----------------------------------------------------------------------------
(* Landmark schema of api.py *)

\* keys of compute_key_angles, in the order the dict is built
JointNames == <<"left_elbow", "right_elbow", "left_knee", "right_knee",
                "left_shoulder", "right_shoulder", "hip">>

\* JOINT_LANDMARK_MAP: angle name -> MediaPipe landmark index
JOINT_LANDMARK_MAP ==
    [j \in {"left_elbow", "right_elbow", "left_knee", "right_knee",
            "left_shoulder", "right_shoulder", "hip"} |->
        CASE j = "left_elbow" -> 13
          [] j = "right_elbow" -> 14
          [] j = "left_knee" -> 25
          [] j = "right_knee" -> 26
          [] j = "left_shoulder" -> 11
          [] j = "right_shoulder" -> 12
          [] j = "hip" -> 23]

\* the first n joints of the catalog
FirstJoints(n) == {JointNames[i] : i \in 1..n}

\* sample angles: the reference angles and the current angles of the runs
RefAngleValues == {90, 180}
CurAngleValues == {90, 105, 115, 180}

\* the "tolerance" form field values of the runs, percent (20 is the default)
ToleranceValues == {-20, 0, 20}

\* float("nan"), which float(request.form.get("tolerance")) accepts: a value kept
\* apart from every percent, equal to no product and in no order with any number
NaNPercent == 2147483647

\* every dict with keys among J and values in V
AngleMaps(J, V) == UNION {[D -> V] : D \in SUBSET J}

\* dict iteration: keys in insertion order (the catalog's order)
Keys(m) == SelectSeq(JointNames, LAMBDA j : j \in DOMAIN m)

\* the joints a comparison looks at: `for joint in ref: if joint in new`
Comparable(ref, new) == SelectSeq(Keys(ref), LAMBDA j : j \in DOMAIN new)

Range(s) == {s[i] : i \in 1..Len(s)}

-----------------------------------------------------------------------------
(* api.py compare_pose: the comparison of a current and a reference map *)

\* a band that ignores the reference angle (tolerance read as degrees)
ToleranceDegAbsolute(tol, ref_ang) == Scale * tol

\* tolerance_percent * abs(ref_ang), in hundredths of a degree; nan * x is nan
ToleranceDeg(tol, ref_ang) == IF tol = NaNPercent THEN NaNPercent ELSE tol * Abs(ref_ang)

\* abs(diff) > tolerance_deg, False when tolerance_deg is nan
Exceeds(diff, tol_deg) == tol_deg # NaNPercent /\ Scale * Abs(diff) > tol_deg

\* diff <= tolerance_deg with diff = abs(new_ang - ref_ang), False when tolerance_deg is nan
Within(diff, tol_deg) == tol_deg # NaNPercent /\ Scale * Abs(diff) <= tol_deg

\* "straighten" if diff > 0 else "bend"
AdjustmentLabel(diff) == IF diff > 0 THEN "straighten" ELSE "bend"

\* adjustments: one entry per comparable joint outside its band
Adjustments(ref, new, tol) ==
    LET flagged == SelectSeq(Comparable(ref, new),
                       LAMBDA j : Exceeds(new[j] - ref[j], ToleranceDeg(tol, ref[j])))
    IN  [i \in 1..Len(flagged) |->
            [joint_name     |-> flagged[i],
             adjustment     |-> AdjustmentLabel(new[flagged[i]] - ref[flagged[i]]),
             original_angle |-> ref[flagged[i]],
             new_angle      |-> new[flagged[i]],
             difference     |-> new[flagged[i]] - ref[flagged[i]]]]

\* tolerance_degrees = {j: tolerance_percent * abs(ref_angles[j]) for j in ref_angles}
ToleranceDegrees(ref, tol) == [j \in DOMAIN ref |-> ToleranceDeg(tol, ref[j])]

\* is_correct = abs(new_angle - ref_angle) <= tolerance_degrees[joint_name]
IsCorrect(new_angle, ref_angle, tol_deg) ==
    tol_deg # NaNPercent /\ Scale * Abs(new_angle - ref_angle) <= tol_deg

\* live_joint_feedback: one entry per comparable joint that has a landmark
LiveJointFeedback(ref, new, tol) ==
    LET listed == SelectSeq(Comparable(ref, new),
                      LAMBDA j : j \in DOMAIN JOINT_LANDMARK_MAP)
    IN  [i \in 1..Len(listed) |->
            [joint_name |-> listed[i],
             landmark   |-> JOINT_LANDMARK_MAP[listed[i]],
             is_correct |-> IsCorrect(new[listed[i]], ref[listed[i]],
                                      ToleranceDegrees(ref, tol)[listed[i]])]]

\* a denominator that counts every reference joint
TotalJointsOfReference(ref, new) == Len(Keys(ref))

\* total_joints: joints of the reference that the current map has
TotalJoints(ref, new) == Len(Comparable(ref, new))

\* correct_joints: those with diff <= tolerance_deg
CorrectJoints(ref, new, tol) ==
    Len(SelectSeq(Comparable(ref, new),
            LAMBDA j : Within(new[j] - ref[j], ToleranceDeg(tol, ref[j]))))

\* a quotient cut to two decimals instead of rounded
PoseAccuracyTruncated(correct, total) ==
    IF total > 0 THEN (correct * 100 * Scale) \div total ELSE 0

\* round((correct / total) * 100, 2) in hundredths of a percent; 0 when total = 0.
\* The quotient is rounded to the nearest hundredth (no tie occurs below 32 joints).
PoseAccuracy(correct, total) ==
    IF total > 0 THEN (2 * correct * 100 * Scale + total) \div (2 * total) ELSE 0

\* the hardcoded threshold of audio_feedback, percent
AccuracyThreshold == 80

\* a strict threshold: "correct" if pose_accuracy > 80
AudioFeedbackStrict(accuracy) ==
    IF accuracy > AccuracyThreshold * Scale THEN "correct" ELSE "wrong"

\* "correct" if pose_accuracy >= 80 else "wrong"
AudioFeedback(accuracy) ==
    IF accuracy >= AccuracyThreshold * Scale THEN "correct" ELSE "wrong"

ComparePose ==
    /\ pc = "start"
    /\ pc' = "compare_pose"
    /\ adjustments' = Adjustments(ref_angles, new_angles, tolerance)
    /\ tolerance_degrees' = ToleranceDegrees(ref_angles, tolerance)
    /\ live_joint_feedback' = LiveJointFeedback(ref_angles, new_angles, tolerance)
    /\ total_joints' = TotalJoints(ref_angles, new_angles)
    /\ correct_joints' = CorrectJoints(ref_angles, new_angles, tolerance)
    /\ pose_accuracy' = PoseAccuracy(CorrectJoints(ref_angles, new_angles, tolerance),
                                     TotalJoints(ref_angles, new_angles))
    /\ audio_feedback' =
           AudioFeedback(PoseAccuracy(CorrectJoints(ref_angles, new_angles, tolerance),
                                      TotalJoints(ref_angles, new_angles)))
    /\ UNCHANGED <<ref_angles, new_angles, tolerance, feedback, feedback_list, color_map>>
    /\ UNCHANGED <<angleVars, extractVars, requestVars, cameraVars, circles, storeVars>>

-----------------------------------------------------------------------------
(* server.py get_feedback(current_angles, ideal_angles) *)

\* the literal 0.20 of `tolerance = 0.20 * ideal_angle`, percent
FeedbackPercent == 20

\* tolerance = 0.20 * ideal_angle (no abs), in hundredths of a degree
FeedbackTolerance(ideal_angle) == FeedbackPercent * ideal_angle

\* the message chosen once deviation > tolerance
FeedbackMessage(current_angle, ideal_angle) ==
    IF current_angle < ideal_angle
    THEN "Angle is too small. Try to extend more."
    ELSE "Angle is too wide. Try to bend more."

\* feedback: joint -> message, for the comparable joints outside their band
GetFeedbackResult(current, ideal) ==
    LET flagged == {j \in DOMAIN ideal :
                       /\ j \in DOMAIN current
                       /\ Scale * Abs(current[j] - ideal[j]) > FeedbackTolerance(ideal[j])}
    IN  [j \in flagged |-> FeedbackMessage(current[j], ideal[j])]

GetFeedback ==
    /\ pc = "start"
    /\ pc' = "get_feedback"
    /\ feedback' = GetFeedbackResult(new_angles, ref_angles)
    /\ tolerance_degrees' =
           [j \in Range(Comparable(ref_angles, new_angles)) |->
               FeedbackTolerance(ref_angles[j])]
    /\ UNCHANGED <<ref_angles, new_angles, tolerance, adjustments, live_joint_feedback,
                   total_joints, correct_joints, pose_accuracy, audio_feedback,
                   feedback_list, color_map>>
    /\ UNCHANGED <<angleVars, extractVars, requestVars, cameraVars, circles, storeVars>>

-----------------------------------------------------------------------------
(* The comparison inside the camera loops (generate_camera) *)

\* poses/app.py: tolerance = 15.0  # degrees
PosesTolerance == 15

\* with_login/app.py: tolerance = 20  # degrees
LoginTolerance == 20

\* a camera band read as a percentage of the reference angle
CameraToleranceDegPercent(tol, ref_ang) == tol * Abs(ref_ang)

\* the band a camera loop applies to a joint, in hundredths of a degree
CameraToleranceDeg(tol, ref_ang) == Scale * tol

\* abs(diff) > tolerance
CameraExceeds(live_ang, ref_ang, tol) ==
    Scale * Abs(live_ang - ref_ang) > CameraToleranceDeg(tol, ref_ang)

\* color_map: every comparable joint, red outside the band and green inside;
\* nothing is compared while reference_angles is None or empty
CameraColorMap(ref, cur, tol) ==
    IF DOMAIN ref = {} THEN EmptyMap
    ELSE [j \in Range(Comparable(ref, cur)) |->
             IF CameraExceeds(cur[j], ref[j], tol) THEN "red" ELSE "green"]

\* feedback_list: "Adjust <key>" for each red joint, in the reference's order
CameraFeedbackList(ref, cur, tol) ==
    IF DOMAIN ref = {} THEN <<>>
    ELSE SelectSeq(Comparable(ref, cur), LAMBDA j : CameraExceeds(cur[j], ref[j], tol))

CameraCompare(name, tol) ==
    /\ pc = "start"
    /\ pc' = name
    /\ color_map' = CameraColorMap(ref_angles, new_angles, tol)
    /\ feedback_list' = CameraFeedbackList(ref_angles, new_angles, tol)
    /\ tolerance_degrees' =
           [j \in DOMAIN CameraColorMap(ref_angles, new_angles, tol) |->
               CameraToleranceDeg(tol, ref_angles[j])]
    /\ UNCHANGED <<ref_angles, new_angles, tolerance, adjustments, live_joint_feedback,
                   total_joints, correct_joints, pose_accuracy, audio_feedback, feedback>>
    /\ UNCHANGED <<angleVars, extractVars, requestVars, cameraVars, circles, storeVars>>

PosesCameraCompare == CameraCompare("poses_camera", PosesTolerance)

LoginCameraCompare == CameraCompare("login_camera", LoginTolerance)

-----------------------------------------------------------------------------
(* live_test.py compare_feedback(template_angles, live_angles, tolerance) *)

\* run_live_comparison calls compare_feedback(..., tolerance=30.0), degrees
LiveTolerance == 30

\* feedback[aname] = (diff, instr), or (None, None) when the live angle is missing
CompareFeedbackResult(template, live, tol) ==
    [j \in DOMAIN template |->
        IF j \notin DOMAIN live THEN <<NoneStr, NoneStr>>
        ELSE LET diff == live[j] - template[j]
             IN  <<diff,
                   IF Scale * Abs(diff) <= Scale * tol THEN "OK"
                   ELSE IF diff > 0 THEN "Reduce" ELSE "Raise / extend">>]

CompareFeedback ==
    /\ pc = "start"
    /\ pc' = "compare_feedback"
    /\ feedback' = CompareFeedbackResult(ref_angles, new_angles, LiveTolerance)
    /\ tolerance_degrees' =
           [j \in Range(Comparable(ref_angles, new_angles)) |-> Scale * LiveTolerance]
    /\ UNCHANGED <<ref_angles, new_angles, tolerance, adjustments, live_joint_feedback,
                   total_joints, correct_joints, pose_accuracy, audio_feedback,
                   feedback_list, color_map>>
    /\ UNCHANGED <<angleVars, extractVars, requestVars, cameraVars, circles, storeVars>>

-----------------------------------------------------------------------------
(* SpecCompare *)

InitCompare ==
    /\ pc = "start"
    /\ ref_angles \in AngleMaps(FirstJoints(NumJoints), RefAngleValues)
    /\ new_angles \in AngleMaps(FirstJoints(NumJoints), CurAngleValues)
    /\ tolerance \in ToleranceValues
    /\ tolerance_degrees = EmptyMap
    /\ adjustments = <<>>
    /\ live_joint_feedback = <<>>
    /\ total_joints = 0
    /\ correct_joints = 0
    /\ pose_accuracy = 0
    /\ audio_feedback = NoneStr
    /\ feedback = EmptyMap
    /\ feedback_list = <<>>
    /\ color_map = EmptyMap
    /\ IdleAngle
    /\ IdleExtract
    /\ IdleRequest
    /\ IdleCamera
    /\ IdleStore

NextCompare ==
    \/ ComparePose
    \/ GetFeedback
    \/ PosesCameraCompare
    \/ LoginCameraCompare
    \/ CompareFeedback

SpecCompare == InitCompare /\ [][NextCompare]_vars

-----------------------------------------------------------------------------
(* SpecAccuracy: compare_pose with the default tolerance on maps over more   *)
(* joints and fewer angle values, so that every ratio up to 5/5 occurs       *)

\* request.form.get("tolerance", 20.0)
DefaultTolerance == 20

InitAccuracy ==
    /\ pc = "start"
    /\ ref_angles \in AngleMaps(FirstJoints(NumAccuracyJoints), {90})
    /\ new_angles \in AngleMaps(FirstJoints(NumAccuracyJoints), {90, 115})
    /\ tolerance = DefaultTolerance
    /\ tolerance_degrees = EmptyMap
    /\ adjustments = <<>>
    /\ live_joint_feedback = <<>>
    /\ total_joints = 0
    /\ correct_joints = 0
    /\ pose_accuracy = 0
    /\ audio_feedback = NoneStr
    /\ feedback = EmptyMap
    /\ feedback_list = <<>>
    /\ color_map = EmptyMap
    /\ IdleAngle
    /\ IdleExtract
    /\ IdleRequest
    /\ IdleCamera
    /\ IdleStore

NextAccuracy ==
    \/ ComparePose

SpecAccuracy == InitAccuracy /\ [][NextAccuracy]_vars

-----------------------------------------------------------------------------
(* Arithmetic of the angle functions *)

\* millionths per unit
Micro == 1000 * 1000

Sub(u, v) == <<u[1] - v[1], u[2] - v[2]>>

\* np.dot(u, v) / ax*bx + ay*by
Dot(u, v) == u[1] * v[1] + u[2] * v[2]

NormSq(u) == Dot(u, u)

\* floor of the square root
ISqrt(n) == CHOOSE r \in 0..n : r * r <= n /\ (r + 1) * (r + 1) > n

\* k more decimal digits of a square root: s = floor(sqrt(N)), rem = N - s*s
RECURSIVE SqrtDigits(_, _, _)
SqrtDigits(s, rem, k) ==
    IF k = 0 THEN s
    ELSE LET t == CHOOSE d \in 0..9 :
                      /\ 20 * s * d + d * d <= 100 * rem
                      /\ d = 9 \/ 20 * s * (d + 1) + (d + 1) * (d + 1) > 100 * rem
         IN  SqrtDigits(10 * s + t, 100 * rem - 20 * s * t - t * t, k - 1)

\* floor(sqrt(n) * 10^6)
SqrtMicro(n) == SqrtDigits(ISqrt(n), n - ISqrt(n) * ISqrt(n), 6)

\* np.linalg.norm(u) * np.linalg.norm(v) / hypot(..) * hypot(..), in millionths
NormProduct(u, v) == SqrtMicro(NormSq(u) * NormSq(v))

\* k decimal digits of a quotient by long division: q the digits so far, r the remainder
RECURSIVE FracDigits(_, _, _, _)
FracDigits(q, r, den, k) ==
    IF k = 0 THEN q
    ELSE FracDigits(10 * q + (10 * r) \div den, (10 * r) % den, den, k - 1)

\* dot / den in millionths, truncated toward zero; den > 0 is in millionths
Quotient(dot, den) ==
    LET n == Abs(dot) * Micro
        q == FracDigits(n \div den, n % den, den, 6)
    IN  IF dot < 0 THEN -q ELSE q

\* np.clip(cosine, -1.0, 1.0) / max(-1.0, min(1.0, cosang))
Clip(x) == IF x < -Micro THEN -Micro ELSE IF x > Micro THEN Micro ELSE x

\* cos(d degrees) in millionths, d = 0..90
CosTable ==
    <<
      1000000, 999848, 999391, 998630, 997564, 996195, 994522,
      992546, 990268, 987688, 984808, 981627, 978148, 974370,
      970296, 965926, 961262, 956305, 951057, 945519, 939693,
      933580, 927184, 920505, 913545, 906308, 898794, 891007,
      882948, 874620, 866025, 857167, 848048, 838671, 829038,
      819152, 809017, 798636, 788011, 777146, 766044, 754710,
      743145, 731354, 719340, 707107, 694658, 681998, 669131,
      656059, 642788, 629320, 615661, 601815, 587785, 573576,
      559193, 544639, 529919, 515038, 500000, 484810, 469472,
      453990, 438371, 422618, 406737, 390731, 374607, 358368,
      342020, 325568, 309017, 292372, 275637, 258819, 241922,
      224951, 207912, 190809, 173648, 156434, 139173, 121869,
      104528, 87156, 69756, 52336, 34899, 17452, 0
    >>

\* cos(d degrees) in millionths, d = 0..180
CosOf(d) == IF d <= 90 THEN CosTable[d + 1] ELSE -CosTable[181 - d]

\* nan: a bracket outside the degrees
NaN == [floor |-> -1, ceil |-> -1]

\* np.degrees(np.arccos(x)): the whole degrees that bracket the result, nan outside [-1, 1]
ArcCosDegrees(x) ==
    IF x < -Micro \/ x > Micro THEN NaN
    ELSE [floor |-> CHOOSE d \in 0..180 :
                        CosOf(d) >= x /\ (d = 180 \/ CosOf(d + 1) < x),
          ceil  |-> CHOOSE d \in 0..180 :
                        CosOf(d) <= x /\ (d = 0 \/ CosOf(d - 1) > x)]

-----------------------------------------------------------------------------
(* calc_angle(a, b, c) of api.py, poses/app.py and with_login/app.py.        *)
(* The points are normalized: <<i, j>> stands for (i / MaxCoord, j / MaxCoord), *)
(* so dot products and norm products are in units of 1 / MaxCoord^2.         *)

\* the 1e-6 added to the denominator, in millionths of 1 / MaxCoord^2
Epsilon == MaxCoord * MaxCoord

\* denom = np.linalg.norm(ba) * np.linalg.norm(bc) + 1e-6
CalcAngleDenom(a, b, c) == NormProduct(Sub(a, b), Sub(c, b)) + Epsilon

\* cosine = np.clip(np.dot(ba, bc) / denom, -1.0, 1.0)
CalcAngleCosine(a, b, c) ==
    Clip(Quotient(Dot(Sub(a, b), Sub(c, b)), CalcAngleDenom(a, b, c)))

\* float(np.degrees(np.arccos(cosine)))
CalcAngle(a, b, c) == ArcCosDegrees(CalcAngleCosine(a, b, c))

CalcAngleStep ==
    /\ pc = "start"
    /\ pc' = "calc_angle"
    /\ cosine' = <<CalcAngleCosine(pt_a, pt_b, pt_c)>>
    /\ angle' = CalcAngle(pt_a, pt_b, pt_c)
    /\ UNCHANGED <<pt_a, pt_b, pt_c, compareVars, extractVars, requestVars, cameraVars, circles, storeVars>>

-----------------------------------------------------------------------------
(* angle_between_points(a, v, b) of test.py and live_test.py; pixel points *)

\* na == 0 or nb == 0
Degenerate(a, v, b) == NormSq(Sub(a, v)) = 0 \/ NormSq(Sub(b, v)) = 0

\* cosang = max(-1.0, min(1.0, dot / (na * nb)))
AngleBetweenPointsCosine(a, v, b) ==
    Clip(Quotient(Dot(Sub(a, v), Sub(b, v)), NormProduct(Sub(a, v), Sub(b, v))))

\* None when a == v or b == v, else math.degrees(math.acos(cosang))
AngleBetweenPoints(a, v, b) ==
    IF Degenerate(a, v, b) THEN None
    ELSE ArcCosDegrees(AngleBetweenPointsCosine(a, v, b))

AngleBetweenPointsStep ==
    /\ pc = "start"
    /\ pc' = "angle_between_points"
    /\ cosine' = IF Degenerate(pt_a, pt_b, pt_c) THEN <<>>
                  ELSE <<AngleBetweenPointsCosine(pt_a, pt_b, pt_c)>>
    /\ angle' = AngleBetweenPoints(pt_a, pt_b, pt_c)
    /\ UNCHANGED <<pt_a, pt_b, pt_c, compareVars, extractVars, requestVars, cameraVars, circles, storeVars>>

-----------------------------------------------------------------------------
(* SpecAngle *)

Grid == (0..MaxCoord) \X (0..MaxCoord)

InitAngle ==
    /\ pc = "start"
    /\ pt_a \in Grid
    /\ pt_b \in Grid
    /\ pt_c \in Grid
    /\ cosine = <<>>
    /\ angle = None
    /\ IdleCompare
    /\ IdleExtract
    /\ IdleRequest
    /\ IdleCamera
    /\ IdleStore

NextAngle ==
    \/ CalcAngleStep
    \/ AngleBetweenPointsStep

SpecAngle == InitAngle /\ [][NextAngle]_vars

-----------------------------------------------------------------------------
(* compute_key_angles(pts) of api.py.  pts is the list of landmarks; the      *)
(* visibility of a landmark is dropped by the function and is not kept here. *)
(* Python's pts[i] is pts[i + 1].                                            *)

\* the landmark count below which compute_key_angles returns {}
NumLandmarks == 33

\* the triplets of compute_key_angles: name, a, b (the vertex), c
AngleTriplets ==
    <<<<"left_elbow", 11, 13, 15>>,
      <<"right_elbow", 12, 14, 16>>,
      <<"left_knee", 23, 25, 27>>,
      <<"right_knee", 24, 26, 28>>,
      <<"left_shoulder", 13, 11, 23>>,
      <<"right_shoulder", 14, 12, 24>>,
      <<"hip", 11, 23, 25>>>>

TripletOf(name) == CHOOSE t \in Range(AngleTriplets) : t[1] = name

\* {} if len(pts) < 33, else one angle per triplet
ComputeKeyAngles(p) ==
    IF Len(p) < NumLandmarks THEN EmptyMap
    ELSE [name \in {t[1] : t \in Range(AngleTriplets)} |->
             CalcAngle(p[TripletOf(name)[2] + 1], p[TripletOf(name)[3] + 1],
                       p[TripletOf(name)[4] + 1])]

ComputeKeyAnglesStep ==
    /\ pc = "start"
    /\ pts # <<>>
    /\ pc' = "compute_key_angles"
    /\ angles' = ComputeKeyAngles(pts)
    /\ UNCHANGED <<pts, points, compareVars, angleVars, requestVars, cameraVars, circles, storeVars>>

-----------------------------------------------------------------------------
(* test.py process_image (and live_test.py compute_pose_and_angles): from the *)
(* detected points to the angle map.  A point is <<x, y>> in pixels or None;  *)
(* its confidence is not read by the angle loop and is not kept here.         *)

\* the keys of JOINTS_15
JOINTS_15 == {"Nose", "Neck", "RShoulder", "RElbow", "RWrist", "LShoulder", "LElbow",
              "LWrist", "RHip", "RKnee", "RAnkle", "LHip", "LKnee", "LAnkle", "MidHip"}

\* ANGLE_JOINTS: name, a, v (the vertex), b
ANGLE_JOINTS ==
    <<<<"R_Elbow", "RShoulder", "RElbow", "RWrist">>,
      <<"L_Elbow", "LShoulder", "LElbow", "LWrist">>,
      <<"R_Shoulder", "Neck", "RShoulder", "RElbow">>,
      <<"L_Shoulder", "Neck", "LShoulder", "LElbow">>,
      <<"R_Knee", "RHip", "RKnee", "RAnkle">>,
      <<"L_Knee", "LHip", "LKnee", "LAnkle">>,
      <<"R_Hip", "Neck", "RHip", "RKnee">>,
      <<"L_Hip", "Neck", "LHip", "LKnee">>>>

AngleJointOf(name) == CHOOSE t \in Range(ANGLE_JOINTS) : t[1] = name

\* points["MidHip"]: the midpoint of RHip and LHip when both were found, else None
WithMidHip(pt) ==
    [pt EXCEPT !["MidHip"] =
        IF pt["RHip"] # None /\ pt["LHip"] # None
        THEN <<(pt["RHip"][1] + pt["LHip"][1]) \div 2, (pt["RHip"][2] + pt["LHip"][2]) \div 2>>
        ELSE None]

\* an angle loop that leaves out the angles it cannot compute
ProcessImageAnglesOmitting(pt) ==
    [name \in {t[1] : t \in {u \in Range(ANGLE_JOINTS) :
                                 /\ \A k \in 2..4 : pt[u[k]] # None
                                 /\ ~Degenerate(pt[u[2]], pt[u[3]], pt[u[4]])}} |->
        AngleBetweenPoints(pt[AngleJointOf(name)[2]], pt[AngleJointOf(name)[3]],
                           pt[AngleJointOf(name)[4]])]

\* angles: every name of ANGLE_JOINTS; None when a point of the triplet is None or
\* angle_between_points returned None, else the angle (round(ang, 1) keeps its
\* bracket of whole degrees)
ProcessImageAngles(pt) ==
    [name \in {t[1] : t \in Range(ANGLE_JOINTS)} |->
        LET A == pt[AngleJointOf(name)[2]]
            V == pt[AngleJointOf(name)[3]]
            B == pt[AngleJointOf(name)[4]]
        IN  IF A # None /\ V # None /\ B # None
            THEN AngleBetweenPoints(A, V, B)
            ELSE None]

ProcessImageStep ==
    /\ pc = "start"
    /\ points # EmptyMap
    /\ pc' = "process_image"
    /\ points' = WithMidHip(points)
    /\ angles' = ProcessImageAngles(WithMidHip(points))
    /\ UNCHANGED <<pts, compareVars, angleVars, requestVars, cameraVars, circles, storeVars>>

-----------------------------------------------------------------------------
(* SpecExtract *)

\* the positions a varied landmark takes
Positions == {<<0, 0>>, <<1, 0>>, <<1, 1>>}

\* the position of a landmark that does not vary
DefaultPosition(i) == <<i % 2, (i \div 2) % 2>>

\* the lengths of the MediaPipe snapshots (33 is what MediaPipe returns)
SnapshotLengths == {20, 32, 33}

\* the MediaPipe landmarks that vary, in this order
VariedIndices == SubSeq(<<11, 13, 15, 12, 14, 16, 23, 25, 27, 24, 26, 28>>, 1, NumVaried)

\* the OpenPose points that vary, in this order
VariedNames ==
    SubSeq(<<"RShoulder", "RElbow", "RWrist", "LShoulder", "LElbow", "LWrist", "Neck",
             "RHip", "RKnee", "RAnkle", "LHip", "LKnee", "LAnkle">>, 1, NumVaried)

\* the index of a name in the order of JOINTS_15
NameIndex(name) ==
    CHOOSE i \in 1..15 :
        <<"Nose", "Neck", "RShoulder", "RElbow", "RWrist", "LShoulder", "LElbow",
          "LWrist", "RHip", "RKnee", "RAnkle", "LHip", "LKnee", "LAnkle", "MidHip">>[i] = name

InitExtract ==
    /\ pc = "start"
    /\ angles = EmptyMap
    /\ \/ /\ points = EmptyMap
          /\ \E n \in SnapshotLengths :
             \E f \in [Range(VariedIndices) -> Positions] :
                 pts = [i \in 1..n |->
                           IF i - 1 \in Range(VariedIndices) THEN f[i - 1]
                           ELSE DefaultPosition(i - 1)]
       \/ /\ pts = <<>>
          /\ \E f \in [Range(VariedNames) -> Positions \cup {None}] :
                 points = [name \in JOINTS_15 |->
                              IF name \in Range(VariedNames) THEN f[name]
                              ELSE DefaultPosition(NameIndex(name))]
    /\ IdleCompare
    /\ IdleAngle
    /\ IdleRequest
    /\ IdleCamera
    /\ IdleStore

NextExtract ==
    \/ ComputeKeyAnglesStep
    \/ ProcessImageStep

SpecExtract == InitExtract /\ [][NextExtract]_vars

-----------------------------------------------------------------------------
(* Snapshots: what the landmark detector returns for an image or a frame.    *)
(* A landmark is <<x, y, v>>: its grid position and its visibility in tenths. *)
(* <<>> is the empty list of an image without a pose.                         *)

\* how many sample poses the snapshots are taken of
NumPoses == 2

\* the positions of the 33 landmarks of sample pose k
SamplePose(k) == [i \in 1..NumLandmarks |-> <<((i - 1) * k) % 3, ((i - 1) \div 2) % 3>>]

\* pose k cut to n landmarks, the first c of them with visibility hi, the others 0.5
Snapshot(k, n, c, hi) ==
    [i \in 1..n |-> <<SamplePose(k)[i][1], SamplePose(k)[i][2], IF i <= c THEN hi ELSE 5>>]

\* the snapshots of the runs: lengths around the last index a connection reads (28),
\* visible counts around the thresholds 15 and 19.8, visibilities 0.6 and 0.9
Snapshots ==
    {<<>>} \cup {Snapshot(k, n, c, hi) :
                    k \in 1..NumPoses, n \in {28, 29, NumLandmarks}, c \in {14, 15, 19, 20}, hi \in {6, 9}}

\* sum(1 for _, _, v in pts if v > threshold), threshold in tenths
VisibleCount(p, threshold) == Cardinality({i \in 1..Len(p) : p[i][3] > threshold})

\* the whole degree next to the float an angle function returned; the 1e-6 of
\* calc_angle moves an angle towards 90 by less than a degree on the grid
WholeDegrees(a) == IF a.floor < 90 THEN a.floor ELSE a.ceil

\* compute_key_angles of every snapshot, as maps of whole degrees
KeyAnglesOf ==
    [p \in Snapshots |->
        [j \in DOMAIN ComputeKeyAngles(p) |-> WholeDegrees(ComputeKeyAngles(p)[j])]]

\* compute_key_angles(pts) as a map of whole degrees, what the comparisons range over
KeyAngles(p) == KeyAnglesOf[p]

\* the triplets of compute_key_angles in poses/app.py: name, a, b (the vertex), c
PosesAngleTriplets ==
    <<<<"left_elbow", 13, 11, 23>>,
      <<"right_elbow", 14, 12, 24>>,
      <<"left_knee", 25, 23, 11>>,
      <<"right_knee", 26, 24, 12>>,
      <<"left_shoulder", 11, 13, 15>>,
      <<"right_shoulder", 12, 14, 16>>>>

PosesTripletOf(name) == CHOOSE t \in Range(PosesAngleTriplets) : t[1] = name

\* compute_key_angles of poses/app.py: {} if len(pts) < 33, else one angle per triplet
PosesComputeKeyAngles(p) ==
    IF Len(p) < NumLandmarks THEN EmptyMap
    ELSE [name \in {t[1] : t \in Range(PosesAngleTriplets)} |->
             CalcAngle(p[PosesTripletOf(name)[2] + 1], p[PosesTripletOf(name)[3] + 1],
                       p[PosesTripletOf(name)[4] + 1])]

\* compute_key_angles of poses/app.py for every snapshot, as maps of whole degrees
PosesKeyAnglesOf ==
    [p \in Snapshots |->
        [j \in DOMAIN PosesComputeKeyAngles(p) |->
            WholeDegrees(PosesComputeKeyAngles(p)[j])]]

\* the compute_key_angles of each camera program (with_login/app.py has the
\* triplets of api.py and spells the shoulder keys left_shldr, right_shldr)
AppKeyAngles(app, p) == IF app = "poses" THEN PosesKeyAnglesOf[p] ELSE KeyAngles(p)

\* the reference angle maps of the runs: {}, the maps of the sample poses, and a
\* map that has one joint only
References ==
    {EmptyMap} \cup {KeyAngles(Snapshot(k, NumLandmarks, 20, 9)) : k \in 1..NumPoses}
        \cup {AppKeyAngles("poses", Snapshot(k, NumLandmarks, 20, 9)) : k \in 1..NumPoses}
               \cup {[j \in {"left_elbow"} |-> 180]}

\* an optional value: <<>> is None, <<v>> is v
Optional(S) == {<<>>} \cup {<<v>> : v \in S}

-----------------------------------------------------------------------------
(* api.py compare_pose: the whole handler, from the form to the response *)

\* v > 0.5, tenths
ApiVisibility == 5

\* a threshold cut to a whole count: visible_count < int(0.6 * 33)
FullBodyMissingTruncated(p) ==
    VisibleCount(p, ApiVisibility) < (6 * NumLandmarks) \div 10

\* visible_count < 0.6 * 33, both sides in tenths
FullBodyMissing(p) == 10 * VisibleCount(p, ApiVisibility) < 6 * NumLandmarks

\* POSE_CONNECTIONS
POSE_CONNECTIONS ==
    <<<<11, 13>>, <<13, 15>>, <<12, 14>>, <<14, 16>>, <<11, 12>>, <<23, 24>>,
      <<11, 23>>, <<12, 24>>, <<23, 25>>, <<25, 27>>, <<24, 26>>, <<26, 28>>>>

\* h, w, _ = img.shape of the sample image
ImgWidth == 640
ImgHeight == 480

\* new_pts[a] or new_pts[b] raises IndexError
SkeletonRaises(p) ==
    \E i \in 1..Len(POSE_CONNECTIONS) :
        POSE_CONNECTIONS[i][1] + 1 > Len(p) \/ POSE_CONNECTIONS[i][2] + 1 > Len(p)

\* skeleton_lines: one segment per connection, x * w and y * h
\* (in units of 1 / MaxCoord pixel, x and y being grid positions)
SkeletonLines(p, w, h) ==
    [i \in 1..Len(POSE_CONNECTIONS) |->
        [x1 |-> p[POSE_CONNECTIONS[i][1] + 1][1] * w,
         y1 |-> p[POSE_CONNECTIONS[i][1] + 1][2] * h,
         x2 |-> p[POSE_CONNECTIONS[i][2] + 1][1] * w,
         y2 |-> p[POSE_CONNECTIONS[i][2] + 1][2] * h]]

\* where the handler leaves: the first return or raise that the request meets
ComparePoseOutcome(f, im, p, r) ==
    IF f = "no_reference_pose_number" THEN "exception"        \* int(None) raises
    ELSE IF im = NoneStr THEN "invalid_image"
    ELSE IF p = <<>> THEN "no_pose"
    ELSE IF FullBodyMissing(p) THEN "no_full_body"
    ELSE IF r = <<>> THEN "no_reference"
    ELSE IF SkeletonRaises(p) THEN "exception"                \* new_pts[a] raises
    ELSE "ok"

\* the stages the handler ran before it left
ComparePoseTrace(f, im, p, r) ==
    IF f = "no_reference_pose_number" THEN <<>>
    ELSE IF im = NoneStr THEN <<"decode">>
    ELSE IF p = <<>> THEN <<"decode", "detect">>
    ELSE IF FullBodyMissing(p) THEN <<"decode", "detect", "visibility">>
    ELSE IF r = <<>> THEN <<"decode", "detect", "visibility", "angles", "reference">>
    ELSE IF SkeletonRaises(p)
    THEN <<"decode", "detect", "visibility", "angles", "reference", "compare", "skeleton">>
    ELSE <<"decode", "detect", "visibility", "angles", "reference", "compare", "skeleton",
           "accuracy">>

\* a handler that answers a missing reference row like a comparison
ComparePoseResponseLenient(outcome) ==
    CASE outcome = "invalid_image" -> [status |-> 400, error |-> "Invalid image file"]
      [] outcome = "no_pose" -> [status |-> 400, error |-> "Could not detect pose in new image"]
      [] outcome = "no_full_body" -> [status |-> 400, error |-> "Full body not detected"]
      [] outcome = "exception" -> [status |-> 500, error |-> "Internal server error"]
      [] OTHER -> [status |-> 200, error |-> NoneStr]

\* the jsonify(...) of each way out
ComparePoseResponse(outcome) ==
    CASE outcome = "invalid_image" -> [status |-> 400, error |-> "Invalid image file"]
      [] outcome = "no_pose" -> [status |-> 400, error |-> "Could not detect pose in new image"]
      [] outcome = "no_full_body" -> [status |-> 400, error |-> "Full body not detected"]
      [] outcome = "no_reference" -> [status |-> 404, error |-> "Reference pose not found"]
      [] outcome = "exception" -> [status |-> 500, error |-> "Internal server error"]
      [] outcome = "ok" -> [status |-> 200, error |-> NoneStr]

\* lx = landmark[lm].x * w, ly = landmark[lm].y * h of each live_feedback entry
LivePositions(entries, p, w, h) ==
    [i \in 1..Len(entries) |->
        [joint_name |-> entries[i].joint_name,
         landmark   |-> entries[i].landmark,
         x          |-> p[entries[i].landmark + 1][1] * w,
         y          |-> p[entries[i].landmark + 1][2] * h,
         is_correct |-> entries[i].is_correct]]

\* The variables of the comparison are the fields of the 200 response; an error
\* response has none of them.
ComparePoseRequest ==
    /\ pc = "start"
    /\ pc' = "compare_pose_request"
    /\ LET outcome == ComparePoseOutcome(form, img, pts, row)
           ok == outcome = "ok"
           ref == IF ok THEN row[1] ELSE EmptyMap
           new == IF ok THEN KeyAngles(pts) ELSE EmptyMap
       IN  /\ response' = ComparePoseResponse(outcome)
           /\ trace' = ComparePoseTrace(form, img, pts, row)
           /\ ref_angles' = ref
           /\ new_angles' = new
           /\ adjustments' = Adjustments(ref, new, tolerance)
           /\ tolerance_degrees' = ToleranceDegrees(ref, tolerance)
           /\ live_joint_feedback' = LivePositions(LiveJointFeedback(ref, new, tolerance),
                                                 pts, ImgWidth, ImgHeight)
           /\ total_joints' = TotalJoints(ref, new)
           /\ correct_joints' = CorrectJoints(ref, new, tolerance)
           /\ pose_accuracy' = PoseAccuracy(CorrectJoints(ref, new, tolerance),
                                            TotalJoints(ref, new))
           /\ audio_feedback' =
                  IF ok THEN AudioFeedback(PoseAccuracy(CorrectJoints(ref, new, tolerance),
                                                        TotalJoints(ref, new)))
                  ELSE NoneStr
           /\ skeleton_lines' = IF ok THEN SkeletonLines(pts, ImgWidth, ImgHeight) ELSE <<>>
    /\ UNCHANGED <<tolerance, feedback, feedback_list, color_map, pts, points, angles,
                   form, img, row, ideal_pose, stored>>
    /\ UNCHANGED <<angleVars, cameraVars, circles, storeVars>>

-----------------------------------------------------------------------------
(* An exception that no handler catches: Flask answers 500, flask_socketio    *)
(* logs it and emits nothing.                                                 *)

Unhandled == [status |-> 500, error |-> "Unhandled exception"]

-----------------------------------------------------------------------------
(* api.py upload_pose: img = cv2.imread(path); pts = get_pose_landmarks(img)  *)

\* get_pose_landmarks(None) raises in cv2.cvtColor; nothing catches it
UploadPoseResponse(im, p) ==
    IF im = NoneStr THEN Unhandled
    ELSE IF p = <<>> THEN [status |-> 400, error |-> "Could not detect pose in image"]
    ELSE [status |-> 200, error |-> NoneStr]

UploadPoseTrace(im, p) ==
    IF im = NoneStr THEN <<"decode">>
    ELSE IF p = <<>> THEN <<"decode", "detect">>
    ELSE <<"decode", "detect", "angles", "store">>

UploadPoseRequest ==
    /\ pc = "start"
    /\ pc' = "upload_pose_request"
    /\ response' = UploadPoseResponse(img, pts)
    /\ trace' = UploadPoseTrace(img, pts)
    /\ stored' = IF img # NoneStr /\ pts # <<>>
                 THEN <<[joints |-> pts, angles |-> KeyAngles(pts)]>>
                 ELSE <<>>
    /\ UNCHANGED <<form, img, row, ideal_pose, skeleton_lines>>
    /\ UNCHANGED <<compareVars, angleVars, extractVars, cameraVars, circles, storeVars>>

-----------------------------------------------------------------------------
(* server.py handle_video_stream: one streamed frame *)

\* the maps extract_all_angles returns (whole degrees, every name present),
\* sampled on one joint
StreamAngleMaps == [{"left_elbow"} -> CurAngleValues]

\* cv2.cvtColor(None) raises, and so does landmarks[i] beyond the list
HandleVideoStreamRaises(im, p) == im = NoneStr \/ (p # <<>> /\ Len(p) < NumLandmarks)

HandleVideoStreamTrace(im, p, ideal) ==
    IF im = NoneStr THEN <<"decode">>
    ELSE IF p = <<>> THEN <<"decode", "detect">>
    ELSE IF Len(p) < NumLandmarks THEN <<"decode", "detect", "angles">>
    ELSE IF ideal = <<>> THEN <<"decode", "detect", "angles">>
    ELSE <<"decode", "detect", "angles", "compare">>

HandleVideoStream ==
    /\ pc = "start"
    /\ pc' = "handle_video_stream"
    /\ trace' = HandleVideoStreamTrace(img, pts, ideal_pose)
    /\ response' = IF HandleVideoStreamRaises(img, pts) THEN Unhandled
                   ELSE [status |-> 200, error |-> NoneStr]
    /\ \E current_angles \in StreamAngleMaps :
           IF ~HandleVideoStreamRaises(img, pts) /\ pts # <<>>
           THEN /\ new_angles' = current_angles
                /\ feedback' = IF ideal_pose # <<>>
                               THEN GetFeedbackResult(current_angles, ideal_pose[1])
                               ELSE EmptyMap
           ELSE UNCHANGED <<new_angles, feedback>>
    /\ UNCHANGED <<ref_angles, tolerance, tolerance_degrees, adjustments,
                   live_joint_feedback, total_joints, correct_joints, pose_accuracy,
                   audio_feedback, feedback_list, color_map>>
    /\ UNCHANGED <<form, img, row, ideal_pose, skeleton_lines, stored>>
    /\ UNCHANGED <<angleVars, extractVars, cameraVars, circles, storeVars>>

-----------------------------------------------------------------------------
(* One iteration of generate_camera (poses/app.py and with_login/app.py),    *)
(* from the frame to latest_feedback.  A message "Adjust <key>" is kept as    *)
(* <key>.                                                                     *)

\* v > 0.5 and v > 0.8, tenths
PosesVisibility == 5
LoginVisibility == 8

\* vis_count < 15
CameraVisibleMin == 15

AppTolerance(app) == IF app = "poses" THEN PosesTolerance ELSE LoginTolerance

AppVisibility(app) == IF app = "poses" THEN PosesVisibility ELSE LoginVisibility

NoDetectionMessage(app) ==
    IF app = "poses" THEN "Cannot detect full body" ELSE "Full body not detected - step back"

NotVisibleMessage(app) ==
    IF app = "poses" THEN "Body not fully visible" ELSE "Full body not fully visible"

GoodPostureMessage(app) == IF app = "poses" THEN "Good posture" ELSE "Good posture!"

\* the dict behind the global reference_angles, {} when it is None
RefMap(ref) == IF ref = <<>> THEN EmptyMap ELSE ref[1]

\* feedback_list at the end of the iteration
FrameFeedbackList(app, p, ref) ==
    IF p = <<>> THEN <<NoDetectionMessage(app)>>
    ELSE (IF VisibleCount(p, AppVisibility(app)) < CameraVisibleMin
          THEN <<NotVisibleMessage(app)>> ELSE <<>>)
         \o CameraFeedbackList(RefMap(ref), AppKeyAngles(app, p), AppTolerance(app))

\* color_map at the end of the iteration
FrameColorMap(app, p, ref) ==
    IF p = <<>> THEN EmptyMap
    ELSE CameraColorMap(RefMap(ref), AppKeyAngles(app, p), AppTolerance(app))

\* the landmark index the drawing section picks for a key of color_map
JointDrawIndex(key) ==
    CASE key = "left_elbow" -> 13
      [] key = "right_elbow" -> 14
      [] key = "left_knee" -> 25
      [] key = "right_knee" -> 26
      [] key = "left_shoulder" -> 11
      [] key = "right_shoulder" -> 12
      [] key = "hip" -> 23

\* cv2.circle(frame, p2d[idx], ...) for each key of color_map, p2d = (x * w, y * h)
FrameCircles(p, cm, w, h) ==
    [key \in DOMAIN cm |->
        [landmark |-> JointDrawIndex(key),
         x |-> p[JointDrawIndex(key) + 1][1] * w,
         y |-> p[JointDrawIndex(key) + 1][2] * h]]

\* "; ".join(feedback_list) if feedback_list else "Good posture"
FeedbackText(app, fl) == IF fl = <<>> THEN <<GoodPostureMessage(app)>> ELSE fl

CameraFrame(app) ==
    /\ pc = "start"
    /\ pc' = app
    /\ feedback_list' = FrameFeedbackList(app, pts, reference_angles)
    /\ color_map' = FrameColorMap(app, pts, reference_angles)
    /\ latest_feedback' = FeedbackText(app, FrameFeedbackList(app, pts, reference_angles))
    /\ circles' = FrameCircles(pts, FrameColorMap(app, pts, reference_angles),
                                ImgWidth, ImgHeight)
    /\ trace' = IF pts = <<>> THEN <<"detect">>
                ELSE IF reference_angles = <<>> \/ reference_angles = <<EmptyMap>>
                THEN <<"detect", "visibility">>
                ELSE <<"detect", "visibility", "angles", "compare">>
    /\ UNCHANGED <<ref_angles, new_angles, tolerance, tolerance_degrees, adjustments,
                   live_joint_feedback, total_joints, correct_joints, pose_accuracy,
                   audio_feedback, feedback>>
    /\ UNCHANGED <<form, img, row, ideal_pose, response, skeleton_lines, stored>>
    /\ UNCHANGED <<reference_joints, reference_angles, feedback_lock, cam_pc, frames,
                   ref_checked, ref_used, last_published, reader_pc, read_value,
                   expected_read, upload_pc, upload_pts, uploads>>
    /\ UNCHANGED <<angleVars, extractVars>>
    /\ UNCHANGED storeVars

PosesCameraFrame == CameraFrame("poses")

LoginCameraFrame == CameraFrame("with_login")

-----------------------------------------------------------------------------
(* live_test.py overlay_feedback: the skeleton drawn over the frame *)

\* POSE_PAIRS
POSE_PAIRS ==
    <<<<"Neck", "RShoulder">>, <<"Neck", "LShoulder">>, <<"RShoulder", "RElbow">>,
      <<"RElbow", "RWrist">>, <<"LShoulder", "LElbow">>, <<"LElbow", "LWrist">>,
      <<"Neck", "RHip">>, <<"Neck", "LHip">>, <<"RHip", "RKnee">>, <<"RKnee", "RAnkle">>,
      <<"LHip", "LKnee">>, <<"LKnee", "LAnkle">>>>

\* the cv2.line calls: one per pair with both points found, at the points' pixels
OverlayLines(pt) ==
    LET drawn == SelectSeq(POSE_PAIRS, LAMBDA pr : pt[pr[1]] # None /\ pt[pr[2]] # None)
    IN  [i \in 1..Len(drawn) |->
            [x1 |-> pt[drawn[i][1]][1], y1 |-> pt[drawn[i][1]][2],
             x2 |-> pt[drawn[i][2]][1], y2 |-> pt[drawn[i][2]][2]]]

OverlayFeedbackStep ==
    /\ pc = "start"
    /\ points # EmptyMap
    /\ pc' = "overlay_feedback"
    /\ skeleton_lines' = OverlayLines(points)
    /\ UNCHANGED <<form, img, row, ideal_pose, response, trace, stored>>
    /\ UNCHANGED <<compareVars, angleVars, extractVars, cameraVars, circles, storeVars>>

-----------------------------------------------------------------------------
(* SpecRequest *)

\* the OpenPose point maps of the runs: all points found, or some of them not
SamplePointMaps ==
    {[name \in JOINTS_15 |->
         IF name \in missing THEN None ELSE DefaultPosition(NameIndex(name))] :
     missing \in {{}, {"RWrist"}, {"Neck"}, {"RShoulder", "LKnee"}}}

InitRequest ==
    /\ pc = "start"
    /\ \/ /\ points = EmptyMap
          /\ form \in {"complete", "no_reference_pose_number"}
          /\ \/ img = NoneStr /\ pts = <<>>
             \/ img = "image" /\ pts \in Snapshots
          /\ \E r \in Optional(References) :
                 row = r /\ ideal_pose = r /\ reference_angles = r
       \/ /\ points \in SamplePointMaps
          /\ form = NoneStr
          /\ img = NoneStr
          /\ pts = <<>>
          /\ row = <<>>
          /\ ideal_pose = <<>>
          /\ reference_angles = <<>>
    /\ angles = EmptyMap
    /\ ref_angles = EmptyMap
    /\ new_angles = EmptyMap
    /\ tolerance \in {DefaultTolerance, 0, NaNPercent}
    /\ tolerance_degrees = EmptyMap
    /\ adjustments = <<>>
    /\ live_joint_feedback = <<>>
    /\ total_joints = 0
    /\ correct_joints = 0
    /\ pose_accuracy = 0
    /\ audio_feedback = NoneStr
    /\ feedback = EmptyMap
    /\ feedback_list = <<>>
    /\ color_map = EmptyMap
    /\ response = [status |-> 0, error |-> NoneStr]
    /\ trace = <<>>
    /\ skeleton_lines = <<>>
    /\ stored = <<>>
    /\ reference_joints = <<>>
    /\ latest_feedback = <<>>
    /\ feedback_lock = "free"
    /\ cam_pc = "idle"
    /\ frames = 0
    /\ ref_checked = <<>>
    /\ ref_used = <<>>
    /\ last_published = <<>>
    /\ reader_pc = "idle"
    /\ read_value = <<>>
    /\ expected_read = <<>>
    /\ upload_pc = "idle"
    /\ upload_pts = <<>>
    /\ uploads = 0
    /\ circles = <<>>
    /\ IdleAngle
    /\ IdleStore

NextRequest ==
    \/ ComparePoseRequest
    \/ UploadPoseRequest
    \/ HandleVideoStream
    \/ PosesCameraFrame
    \/ LoginCameraFrame
    \/ OverlayFeedbackStep

SpecRequest == InitRequest /\ [][NextRequest]_vars

-----------------------------------------------------------------------------
(* poses/app.py as threads: the camera loop (generate_camera), the feedback
   endpoint (feedback_text) and the upload handler (index) *)

\* frames the camera loop processes
NumFrames == 2

\* uploads the index handler serves
NumUploads == 2

\* what get_pose_landmarks returns for a camera frame
FrameSnapshots ==
    {<<>>} \cup {Snapshot(k, NumLandmarks, c, 6) : k \in 1..NumPoses, c \in {14, 20}}

\* what get_pose_landmarks returns for an uploaded reference image
UploadSnapshots == {<<>>} \cup {Snapshot(k, NumLandmarks, 20, 9) : k \in 1..NumPoses}

\* the state the three threads leave alone
outsideCamera ==
    <<pc, ref_angles, new_angles, tolerance, tolerance_degrees, adjustments,
      live_joint_feedback, total_joints, correct_joints, pose_accuracy, audio_feedback,
      feedback, angleVars, points, angles, requestVars, circles, storeVars>>

\* a `with feedback_lock:` that does not wait for the lock
LockIgnored(l) == TRUE

\* `with feedback_lock:` enters only when nobody holds the lock
LockFree(l) == l = "free"

\* a publish that keeps the text once it is set
PublishOnce(prev, fl) == IF prev = <<>> THEN FeedbackText("poses", fl) ELSE prev

\* latest_feedback = "; ".join(feedback_list) if feedback_list else "Good posture"
Publish(prev, fl) == FeedbackText("poses", fl)

\* ret, frame = cap.read(); pts = get_pose_landmarks(frame); the two lists reset
CamRead ==
    /\ cam_pc = "idle"
    /\ frames < NumFrames
    /\ frames' = frames + 1
    /\ pts' \in FrameSnapshots
    /\ feedback_list' = <<>>
    /\ color_map' = EmptyMap
    /\ cam_pc' = "check"
    /\ UNCHANGED <<reference_joints, reference_angles, latest_feedback, feedback_lock,
                   ref_checked, ref_used, last_published, reader_pc, read_value,
                   expected_read, upload_pc, upload_pts, uploads>>
    /\ UNCHANGED outsideCamera

\* if not pts: ... else: the visibility test, then `if reference_angles:`
CamCheckRef ==
    /\ cam_pc = "check"
    /\ IF pts = <<>>
       THEN /\ feedback_list' = FrameFeedbackList("poses", pts, <<>>)
            /\ ref_checked' = <<>>
            /\ ref_used' = <<>>
            /\ cam_pc' = "acquire"
       ELSE /\ ref_checked' = reference_angles
            /\ IF reference_angles = <<>> \/ reference_angles = <<EmptyMap>>
               THEN /\ feedback_list' = FrameFeedbackList("poses", pts, <<>>)
                    /\ ref_used' = reference_angles
                    /\ cam_pc' = "acquire"
               ELSE /\ feedback_list' = feedback_list
                    /\ ref_used' = ref_used
                    /\ cam_pc' = "compare"
    /\ UNCHANGED <<pts, color_map>>
    /\ UNCHANGED <<reference_joints, reference_angles, latest_feedback, feedback_lock,
                   frames, last_published, reader_pc, read_value, expected_read,
                   upload_pc, upload_pts, uploads>>
    /\ UNCHANGED outsideCamera

\* cur_angles = compute_key_angles(pts); for key, ref_ang in reference_angles.items()
CamCompare ==
    /\ cam_pc = "compare"
    /\ ref_used' = reference_angles
    /\ feedback_list' = FrameFeedbackList("poses", pts, reference_angles)
    /\ color_map' = FrameColorMap("poses", pts, reference_angles)
    /\ cam_pc' = "acquire"
    /\ UNCHANGED pts
    /\ UNCHANGED <<reference_joints, reference_angles, latest_feedback, feedback_lock,
                   frames, ref_checked, last_published, reader_pc, read_value,
                   expected_read, upload_pc, upload_pts, uploads>>
    /\ UNCHANGED outsideCamera

\* with feedback_lock: (enter)
CamAcquire ==
    /\ cam_pc = "acquire"
    /\ LockFree(feedback_lock)
    /\ feedback_lock' = "camera"
    /\ cam_pc' = "publish"
    /\ UNCHANGED <<pts, feedback_list, color_map>>
    /\ UNCHANGED <<reference_joints, reference_angles, latest_feedback, frames,
                   ref_checked, ref_used, last_published, reader_pc, read_value,
                   expected_read, upload_pc, upload_pts, uploads>>
    /\ UNCHANGED outsideCamera

\* the one assignment to latest_feedback
CamPublish ==
    /\ cam_pc = "publish"
    /\ latest_feedback' = Publish(latest_feedback, feedback_list)
    /\ last_published' = IF feedback_list = <<>> THEN <<"Good posture">> ELSE feedback_list
    /\ cam_pc' = "release"
    /\ UNCHANGED <<pts, feedback_list, color_map>>
    /\ UNCHANGED <<reference_joints, reference_angles, feedback_lock, frames,
                   ref_checked, ref_used, reader_pc, read_value, expected_read,
                   upload_pc, upload_pts, uploads>>
    /\ UNCHANGED outsideCamera

\* with feedback_lock: (leave); the frame is encoded and yielded
CamRelease ==
    /\ cam_pc = "release"
    /\ feedback_lock' = "free"
    /\ cam_pc' = "idle"
    /\ UNCHANGED <<pts, feedback_list, color_map>>
    /\ UNCHANGED <<reference_joints, reference_angles, latest_feedback, frames,
                   ref_checked, ref_used, last_published, reader_pc, read_value,
                   expected_read, upload_pc, upload_pts, uploads>>
    /\ UNCHANGED outsideCamera

\* feedback_text: with feedback_lock: (enter)
ReaderAcquire ==
    /\ reader_pc = "idle"
    /\ LockFree(feedback_lock)
    /\ feedback_lock' = "reader"
    /\ reader_pc' = "locked"
    /\ UNCHANGED <<pts, feedback_list, color_map>>
    /\ UNCHANGED <<reference_joints, reference_angles, latest_feedback, cam_pc, frames,
                   ref_checked, ref_used, last_published, read_value, expected_read,
                   upload_pc, upload_pts, uploads>>
    /\ UNCHANGED outsideCamera

\* return jsonify({"feedback": latest_feedback})
ReaderRead ==
    /\ reader_pc = "locked"
    /\ read_value' = latest_feedback
    /\ expected_read' = last_published
    /\ reader_pc' = "read"
    /\ UNCHANGED <<pts, feedback_list, color_map>>
    /\ UNCHANGED <<reference_joints, reference_angles, latest_feedback, feedback_lock,
                   cam_pc, frames, ref_checked, ref_used, last_published,
                   upload_pc, upload_pts, uploads>>
    /\ UNCHANGED outsideCamera

\* feedback_text: with feedback_lock: (leave)
ReaderRelease ==
    /\ reader_pc = "read"
    /\ feedback_lock' = "free"
    /\ reader_pc' = "idle"
    /\ UNCHANGED <<pts, feedback_list, color_map>>
    /\ UNCHANGED <<reference_joints, reference_angles, latest_feedback, cam_pc, frames,
                   ref_checked, ref_used, last_published, read_value, expected_read,
                   upload_pc, upload_pts, uploads>>
    /\ UNCHANGED outsideCamera

\* index, POST: img = cv2.imread(path); pts = get_pose_landmarks(img); if pts:
UploadStart ==
    /\ upload_pc = "idle"
    /\ uploads < NumUploads
    /\ uploads' = uploads + 1
    /\ upload_pts' \in UploadSnapshots
    /\ upload_pc' = IF upload_pts' = <<>> THEN "idle" ELSE "set_joints"
    /\ UNCHANGED <<pts, feedback_list, color_map>>
    /\ UNCHANGED <<reference_joints, reference_angles, latest_feedback, feedback_lock,
                   cam_pc, frames, ref_checked, ref_used, last_published,
                   reader_pc, read_value, expected_read>>
    /\ UNCHANGED outsideCamera

\* reference_joints = pts
UploadSetJoints ==
    /\ upload_pc = "set_joints"
    /\ reference_joints' = <<upload_pts>>
    /\ upload_pc' = "set_angles"
    /\ UNCHANGED <<pts, feedback_list, color_map>>
    /\ UNCHANGED <<reference_angles, latest_feedback, feedback_lock, cam_pc, frames,
                   ref_checked, ref_used, last_published, reader_pc, read_value,
                   expected_read, upload_pts, uploads>>
    /\ UNCHANGED outsideCamera

\* reference_angles = compute_key_angles(pts)
UploadSetAngles ==
    /\ upload_pc = "set_angles"
    /\ reference_angles' = <<AppKeyAngles("poses", upload_pts)>>
    /\ upload_pc' = "idle"
    /\ UNCHANGED <<pts, feedback_list, color_map>>
    /\ UNCHANGED <<reference_joints, latest_feedback, feedback_lock, cam_pc, frames,
                   ref_checked, ref_used, last_published, reader_pc, read_value,
                   expected_read, upload_pts, uploads>>
    /\ UNCHANGED outsideCamera

\* an exception inside the loop body (landmark extraction, comparison, drawing):
\* nothing in generate_camera catches it, the generator ends and with it the stream
CamFail ==
    /\ cam_pc \in {"check", "compare", "acquire"}
    /\ cam_pc' = "halted"
    /\ UNCHANGED <<pts, feedback_list, color_map>>
    /\ UNCHANGED <<reference_joints, reference_angles, latest_feedback, feedback_lock,
                   frames, ref_checked, ref_used, last_published, reader_pc, read_value,
                   expected_read, upload_pc, upload_pts, uploads>>
    /\ UNCHANGED outsideCamera

InitCamera ==
    /\ pc = "start"
    /\ IdleCompare
    /\ IdleAngle
    /\ IdleExtract
    /\ IdleRequest
    /\ IdleCamera
    /\ IdleStore

NextCamera ==
    \/ CamRead
    \/ CamCheckRef
    \/ CamCompare
    \/ CamAcquire
    \/ CamPublish
    \/ CamRelease
    \/ CamFail
    \/ ReaderAcquire
    \/ ReaderRead
    \/ ReaderRelease
    \/ UploadStart
    \/ UploadSetJoints
    \/ UploadSetAngles

SpecCamera == InitCamera /\ [][NextCamera]_vars

-----------------------------------------------------------------------------
(* server.py as a sequence of socket events: add_pose, select_pose, connect  *)
(* and video_stream.  pc is the event handled last.                           *)

\* the names clients send with add_pose and select_pose
RawNames == {"Tree Pose", "tree_pose", "warrior"}

\* data['name'].replace(" ", "_").lower()
NormalizeName(n) == IF n = "Tree Pose" THEN "tree_pose" ELSE n

\* what extract_all_angles returns for the image of an add_pose
AddPoseAngleMaps == [{"left_elbow"} -> RefAngleValues]

\* IDEAL_POSES.keys()
StoredNames(d) == {d[i][1] : i \in 1..Len(d)}

\* IDEAL_POSES[name]
IdealAngles(d, n) == d[CHOOSE i \in 1..Len(d) : d[i][1] = n][2]

\* IDEAL_POSES[pose_name] = new_pose_angles: a key the dict has keeps its place
PutPose(d, n, a) ==
    IF n \in StoredNames(d)
    THEN [i \in 1..Len(d) |-> IF d[i][1] = n THEN <<n, a>> ELSE d[i]]
    ELSE Append(d, <<n, a>>)

\* the state the socket handlers leave alone
outsideSocket ==
    <<ref_angles, tolerance, tolerance_degrees, adjustments, live_joint_feedback,
      total_joints, correct_joints, pose_accuracy, audio_feedback, feedback_list,
      color_map, angleVars, points, angles, form, row, ideal_pose, trace,
      skeleton_lines, stored, cameraVars, circles, reference_points, temp_file, req_pc,
      req_image, req_decoded>>

\* handle_add_pose: decode, detect, store under the normalised name
HandleAddPose ==
    \E raw \in RawNames, im \in {NoneStr, "image"},
       p \in {<<>>, Snapshot(1, NumLandmarks, 20, 9)}, a \in AddPoseAngleMaps :
        /\ pc' = "add_pose"
        /\ img' = im
        /\ pts' = IF im = NoneStr THEN <<>> ELSE p
        /\ IF im = NoneStr
           THEN /\ response' = [status |-> 200, error |-> "Server error"]
                /\ UNCHANGED <<IDEAL_POSES, created>>
           ELSE IF p = <<>>
           THEN /\ response' = [status |-> 200,
                                error |-> "Could not detect pose in the image."]
                /\ UNCHANGED <<IDEAL_POSES, created>>
           ELSE /\ response' = [status |-> 200, error |-> NoneStr]
                /\ IDEAL_POSES' = PutPose(IDEAL_POSES, NormalizeName(raw), a)
                /\ created' = IF NormalizeName(raw) \in DOMAIN created THEN created
                              ELSE created @@ (NormalizeName(raw) :> a)
        /\ UNCHANGED <<current_pose_name, selected_pose, compared_with, new_angles,
                       feedback>>
        /\ UNCHANGED outsideSocket

\* handle_select_pose: the name is taken as sent
HandleSelectPose ==
    \E n \in RawNames :
        /\ pc' = "select_pose"
        /\ IF n \in StoredNames(IDEAL_POSES)
           THEN /\ current_pose_name' = n
                /\ selected_pose' = n
           ELSE UNCHANGED <<current_pose_name, selected_pose>>
        /\ UNCHANGED <<IDEAL_POSES, created, compared_with, new_angles, feedback,
                       img, pts, response>>
        /\ UNCHANGED outsideSocket

\* on_connect: poses = list(IDEAL_POSES.keys()); if poses: current_pose_name = poses[0]
OnConnect ==
    /\ pc' = "connect"
    /\ current_pose_name' = IF IDEAL_POSES # <<>> THEN IDEAL_POSES[1][1]
                            ELSE current_pose_name
    /\ UNCHANGED <<IDEAL_POSES, created, selected_pose, compared_with, new_angles,
                   feedback, img, pts, response>>
    /\ UNCHANGED outsideSocket

\* handle_video_stream on the stored poses
StreamFrame ==
    \E im \in {NoneStr, "image"}, p \in {<<>>, Snapshot(1, NumLandmarks, 20, 9)},
       current_angles \in AddPoseAngleMaps :
        /\ pc' = "video_stream"
        /\ img' = im
        /\ pts' = IF im = NoneStr THEN <<>> ELSE p
        /\ IF im = NoneStr
           THEN /\ response' = Unhandled
                /\ compared_with' = <<>>
                /\ UNCHANGED <<new_angles, feedback>>
           ELSE /\ response' = [status |-> 200, error |-> NoneStr]
                /\ new_angles' = IF p = <<>> THEN EmptyMap ELSE current_angles
                /\ IF p # <<>> /\ current_pose_name \in StoredNames(IDEAL_POSES)
                   THEN /\ compared_with' = <<current_pose_name>>
                        /\ feedback' =
                               GetFeedbackResult(current_angles,
                                   IdealAngles(IDEAL_POSES, current_pose_name))
                   ELSE /\ compared_with' = <<>>
                        /\ feedback' = EmptyMap
        /\ UNCHANGED <<IDEAL_POSES, created, current_pose_name, selected_pose>>
        /\ UNCHANGED outsideSocket

\* IDEAL_POSES = load_ideal_poses() ({} without the file); current_pose_name = ""
InitSocket ==
    /\ pc = "start"
    /\ IdleCompare
    /\ IdleAngle
    /\ IdleExtract
    /\ IdleRequest
    /\ IdleCamera
    /\ IdleStore

NextSocket ==
    \/ HandleAddPose
    \/ HandleSelectPose
    \/ OnConnect
    \/ StreamFrame

SpecSocket == InitSocket /\ [][NextSocket]_vars

-----------------------------------------------------------------------------
(* The reference uploads of the programs that keep the active reference in    *)
(* memory: index of poses/app.py (with_login/app.py has the same statements,  *)
(* with reference_points for reference_joints), index of                      *)
(* pose_demo/test/app.py, and handle_add_pose of server.py.                   *)

\* detect_pose_points: [(lm.x, lm.y) for lm in landmarks], [] without a pose
DetectPosePoints(p) == [i \in 1..Len(p) |-> <<p[i][1], p[i][2]>>]

\* poses/app.py index, POST: the reference is assigned only `if pts:`
PosesIndexUpload ==
    \E im \in {NoneStr, "image"}, p \in UploadSnapshots :
        /\ pc' = "poses_index"
        /\ img' = im
        /\ pts' = IF im = NoneStr THEN <<>> ELSE p
        /\ response' = IF im = NoneStr THEN Unhandled ELSE [status |-> 200, error |-> NoneStr]
        /\ IF im = "image" /\ p # <<>>
           THEN /\ reference_joints' = <<p>>
                /\ reference_angles' = <<AppKeyAngles("poses", p)>>
           ELSE UNCHANGED <<reference_joints, reference_angles>>
        /\ UNCHANGED <<reference_points, IDEAL_POSES, created, current_pose_name,
                       selected_pose, compared_with, new_angles, feedback>>
        /\ UNCHANGED <<latest_feedback, feedback_lock, cam_pc, frames, ref_checked,
                       ref_used, last_published, reader_pc, read_value, expected_read,
                       upload_pc, upload_pts, uploads>>
        /\ UNCHANGED <<ref_angles, tolerance, tolerance_degrees, adjustments,
                       live_joint_feedback, total_joints, correct_joints, pose_accuracy,
                       audio_feedback, feedback_list, color_map, angleVars, points,
                       angles, form, row, ideal_pose, trace, skeleton_lines, stored,
                       circles, temp_file, req_pc, req_image,
                       req_decoded>>

\* pose_demo/test/app.py index, POST: reference_points = detect_pose_points(img)
DemoIndexUpload ==
    \E im \in {NoneStr, "image"}, p \in UploadSnapshots :
        /\ pc' = "demo_index"
        /\ img' = im
        /\ pts' = IF im = NoneStr THEN <<>> ELSE p
        /\ response' = IF im = NoneStr THEN Unhandled ELSE [status |-> 200, error |-> NoneStr]
        /\ reference_points' = IF im = NoneStr THEN reference_points
                               ELSE <<DetectPosePoints(p)>>
        /\ UNCHANGED <<IDEAL_POSES, created, current_pose_name, selected_pose,
                       compared_with, new_angles, feedback>>
        /\ UNCHANGED cameraVars
        /\ UNCHANGED <<ref_angles, tolerance, tolerance_degrees, adjustments,
                       live_joint_feedback, total_joints, correct_joints, pose_accuracy,
                       audio_feedback, feedback_list, color_map, angleVars, points,
                       angles, form, row, ideal_pose, trace, skeleton_lines, stored,
                       circles, temp_file, req_pc, req_image,
                       req_decoded>>

InitReference ==
    /\ pc = "start"
    /\ IdleCompare
    /\ IdleAngle
    /\ IdleExtract
    /\ IdleRequest
    /\ IdleCamera
    /\ IdleStore

NextReference ==
    \/ PosesIndexUpload
    \/ DemoIndexUpload
    \/ HandleAddPose

SpecReference == InitReference /\ [][NextReference]_vars

-----------------------------------------------------------------------------
(* api.py compare_pose, two requests at once: both save their upload to the   *)
(* one path uploads/temp.jpg and read it back.                                *)

\* the concurrent requests
Requests == {1, 2}

\* the images clients upload
Images == {"image_a", "image_b", "image_c"}

\* the state the temp file steps leave alone
outsideTemp ==
    <<pc, compareVars, angleVars, extractVars, requestVars, cameraVars, circles,
      reference_points, created, IDEAL_POSES, current_pose_name, selected_pose,
      compared_with>>

\* new_image = request.files.get("new_image")
RequestArrives(i) ==
    /\ req_pc[i] = "idle"
    /\ \E im \in Images : req_image' = [req_image EXCEPT ![i] = im]
    /\ req_pc' = [req_pc EXCEPT ![i] = "save"]
    /\ req_decoded' = [req_decoded EXCEPT ![i] = NoneStr]
    /\ UNCHANGED temp_file
    /\ UNCHANGED outsideTemp

\* temp_path = os.path.join(UPLOAD_FOLDER, "temp.jpg"); new_image.save(temp_path)
RequestSaves(i) ==
    /\ req_pc[i] = "save"
    /\ temp_file' = req_image[i]
    /\ req_pc' = [req_pc EXCEPT ![i] = "read"]
    /\ UNCHANGED <<req_image, req_decoded>>
    /\ UNCHANGED outsideTemp

\* img = cv2.imread(temp_path); the response is computed from img
RequestReads(i) ==
    /\ req_pc[i] = "read"
    /\ req_decoded' = [req_decoded EXCEPT ![i] = temp_file]
    /\ req_pc' = [req_pc EXCEPT ![i] = "respond"]
    /\ UNCHANGED <<temp_file, req_image>>
    /\ UNCHANGED outsideTemp

\* return jsonify(...)
RequestResponds(i) ==
    /\ req_pc[i] = "respond"
    /\ req_pc' = [req_pc EXCEPT ![i] = "idle"]
    /\ UNCHANGED <<temp_file, req_image, req_decoded>>
    /\ UNCHANGED outsideTemp

InitTemp ==
    /\ pc = "start"
    /\ IdleCompare
    /\ IdleAngle
    /\ IdleExtract
    /\ IdleRequest
    /\ IdleCamera
    /\ circles = <<>>
    /\ reference_points = <<>>
    /\ created = <<>>
    /\ IDEAL_POSES = <<>>
    /\ current_pose_name = ""
    /\ selected_pose = ""
    /\ compared_with = <<>>
    /\ temp_file = NoneStr
    /\ req_pc = [i \in Requests |-> "idle"]
    /\ req_image = [i \in Requests |-> NoneStr]
    /\ req_decoded = [i \in Requests |-> NoneStr]

NextTemp ==
    \E i \in Requests :
        \/ RequestArrives(i)
        \/ RequestSaves(i)
        \/ RequestReads(i)
        \/ RequestResponds(i)

SpecTemp == InitTemp /\ [][NextTemp]_vars

-----------------------------------------------------------------------------
(* Properties of the comparison engines *)

\* the joints present in both maps
Both == DOMAIN ref_angles \cap DOMAIN new_angles

\* the joints named by a list of entries
Named(entries) == {entries[i].joint_name : i \in 1..Len(entries)}

\* the adjustment label reported for joint j, None when it has no entry
LabelOf(j) ==
    IF j \in Named(adjustments)
    THEN (CHOOSE e \in Range(adjustments) : e.joint_name = j).adjustment
    ELSE NoneStr

\* C1: in compare_pose every joint present in both maps gets one verdict with
\* tolerance_degrees = tolerance_percent * |reference_angle| and is_correct exactly
\* when |current - reference| <= tolerance_degrees; a joint whose reference angle
\* is twice another's has twice its tolerance band.
C1_ToleranceScalesWithReference ==
    pc = "compare_pose" =>
        /\ Named(live_joint_feedback) = Both
        /\ \A i \in 1..Len(live_joint_feedback) :
               LET e == live_joint_feedback[i]
                   j == e.joint_name
               IN  /\ tolerance_degrees[j] = tolerance * Abs(ref_angles[j])
                   /\ e.is_correct <=>
                          (Scale * Abs(new_angles[j] - ref_angles[j]) <= tolerance_degrees[j])
        /\ \A j, k \in Both :
               Abs(ref_angles[k]) = 2 * Abs(ref_angles[j])
                   => tolerance_degrees[k] = 2 * tolerance_degrees[j]

\* C1 witness: reference 90 at 20% has band 18; current 105 is correct, current 115
\* is not, and a joint with reference 180 has band 36.
C1_Witness ==
    /\ pc = "compare_pose"
    /\ tolerance = 20
    /\ \E i, k, l \in 1..Len(live_joint_feedback) :
           LET e == live_joint_feedback[i]
               f == live_joint_feedback[k]
               g == live_joint_feedback[l]
           IN  /\ ref_angles[e.joint_name] = 90 /\ new_angles[e.joint_name] = 105
               /\ tolerance_degrees[e.joint_name] = 18 * Scale /\ e.is_correct
               /\ ref_angles[f.joint_name] = 90 /\ new_angles[f.joint_name] = 115
               /\ ~f.is_correct
               /\ ref_angles[g.joint_name] = 180
               /\ tolerance_degrees[g.joint_name] = 36 * Scale

\* C2 (as claimed): comparing a non-empty angle map with itself yields
\* is_correct = true for every joint and accuracy 100, whatever the tolerance.
C2_SelfCompareIsPerfect ==
    (pc = "compare_pose" /\ new_angles = ref_angles /\ DOMAIN ref_angles # {}) =>
        /\ \A i \in 1..Len(live_joint_feedback) : live_joint_feedback[i].is_correct
        /\ pose_accuracy = 100 * Scale

\* C3: a joint of the reference that the current map lacks appears neither in the
\* verdict list nor in the adjustments, and the accuracy denominator counts only
\* the joints present in both maps.
C3_ReferenceOnlyJointsIgnored ==
    pc = "compare_pose" =>
        /\ \A j \in DOMAIN ref_angles \ DOMAIN new_angles :
               /\ j \notin Named(live_joint_feedback)
               /\ j \notin Named(adjustments)
        /\ total_joints = Cardinality(Both)
        /\ Len(live_joint_feedback) = Cardinality(Both)

\* C3 witness: two reference joints at 180, only the first one in the current
\* map, at 180: one comparable joint, one correct, accuracy 100.
C3_Witness ==
    /\ pc = "compare_pose"
    /\ ref_angles = [j \in {"left_elbow", "right_elbow"} |-> 180]
    /\ new_angles = [j \in {"left_elbow"} |-> 180]
    /\ tolerance = 20
    /\ total_joints = 1
    /\ correct_joints = 1
    /\ pose_accuracy = 100 * Scale
    /\ Named(live_joint_feedback) = {"left_elbow"}

\* the joints of both maps that lie within their tolerance band
WithinBand == {j \in Both :
                  Scale * Abs(new_angles[j] - ref_angles[j]) <= tolerance * Abs(ref_angles[j])}

\* C4 (as claimed): accuracy = 100 * correct_count / comparable_count exactly, and
\* 0 when no joint is comparable.
C4_AccuracyIsExactRatio ==
    pc = "compare_pose" =>
        /\ total_joints = Cardinality(Both)
        /\ correct_joints = Cardinality(WithinBand)
        /\ IF total_joints = 0 THEN pose_accuracy = 0
           ELSE pose_accuracy * total_joints = 100 * Scale * correct_joints

\* C4 (amended): accuracy is 100 * correct_count / comparable_count rounded to two
\* decimal places (within half a hundredth of the ratio), and 0 when no joint is
\* comparable.
C4_AccuracyIsRoundedRatio ==
    pc = "compare_pose" =>
        /\ total_joints = Cardinality(Both)
        /\ correct_joints = Cardinality(WithinBand)
        /\ IF total_joints = 0 THEN pose_accuracy = 0
           ELSE 2 * Abs(pose_accuracy * total_joints - 100 * Scale * correct_joints)
                    <= total_joints

\* C4 witness: two of three comparable joints correct gives 66.67.
C4_Witness ==
    /\ pc = "compare_pose"
    /\ total_joints = 3
    /\ correct_joints = 2
    /\ pose_accuracy = 6667

\* C5: the overall label is "correct" exactly when the accuracy is at least 80,
\* and "wrong" otherwise.
C5_LabelFollowsThreshold ==
    pc = "compare_pose" =>
        /\ audio_feedback \in {"correct", "wrong"}
        /\ audio_feedback = "correct" <=> pose_accuracy >= 80 * Scale

\* C5 witness: four of five joints correct is exactly 80 and labelled "correct".
C5_Witness ==
    /\ pc = "compare_pose"
    /\ total_joints = 5
    /\ correct_joints = 4
    /\ pose_accuracy = 80 * Scale
    /\ audio_feedback = "correct"

\* the label the claim gives to a deviation under a band (hundredths of a degree)
ClaimedLabel(deviation, band) ==
    IF Scale * deviation > band THEN "straighten"
    ELSE IF Scale * deviation < -band THEN "bend"
    ELSE NoneStr

\* the direction a get_feedback message asks for
DirectionOf(message) ==
    IF message = "Angle is too small. Try to extend more." THEN "straighten" ELSE "bend"

\* C6 (as claimed): for every joint present in both maps the direction label is
\* "straighten" when current - reference > tolerance_degrees, "bend" when it is
\* < -tolerance_degrees, and there is no entry when the joint is within tolerance;
\* in compare_pose and in get_feedback.
C6_DirectionLabels ==
    /\ pc = "compare_pose" =>
           \A j \in Both :
               LabelOf(j) = ClaimedLabel(new_angles[j] - ref_angles[j],
                                         tolerance * Abs(ref_angles[j]))
    /\ pc = "get_feedback" =>
           \A j \in Both :
               (IF j \in DOMAIN feedback THEN DirectionOf(feedback[j]) ELSE NoneStr)
                   = ClaimedLabel(new_angles[j] - ref_angles[j],
                                  FeedbackPercent * Abs(ref_angles[j]))

-----------------------------------------------------------------------------
(* Properties of the angle extractors *)

\* a bracket of whole degrees within [0, 180]
IsDegrees(x) == x # None /\ 0 <= x.floor /\ x.floor <= x.ceil /\ x.ceil <= 180

-----------------------------------------------------------------------------
(* Properties of the angle functions *)

\* u[1] * v[2] - u[2] * v[1]
Cross(u, v) == u[1] * v[2] - u[2] * v[1]

\* a, v, c on one line with v strictly between a and c
StrictlyBetween(a, v, c) ==
    Cross(Sub(a, v), Sub(c, v)) = 0 /\ Dot(Sub(a, v), Sub(c, v)) < 0

\* C9 (as claimed): for every triplet of points the value handed to the inverse
\* cosine lies in [-1, 1] and the returned angle in [0, 180]; three colinear points
\* with the vertex strictly between the other two give 180.
C9_AngleRangeAndStraightIs180 ==
    pc \in {"calc_angle", "angle_between_points"} =>
        /\ \A i \in 1..Len(cosine) : -Micro <= cosine[i] /\ cosine[i] <= Micro
        /\ angle # None => IsDegrees(angle)
        /\ StrictlyBetween(pt_a, pt_b, pt_c) => angle = [floor |-> 180, ceil |-> 180]

\* C10 (as claimed): when landmarks of a triplet coincide the angle function
\* returns a number, and exactly 0 degrees when the two outer points coincide
\* (away from the vertex).
C10_CoincidentLandmarks ==
    (/\ pc \in {"calc_angle", "angle_between_points"}
     /\ pt_a = pt_c \/ pt_a = pt_b \/ pt_c = pt_b) =>
        /\ IsDegrees(angle)
        /\ (pt_a = pt_c /\ pt_a # pt_b) => angle = [floor |-> 0, ceil |-> 0]

-----------------------------------------------------------------------------
(* Properties of the entry points *)

\* the request went through every check of compare_pose that precedes the comparison
ReachedComparison ==
    /\ pc = "compare_pose_request"
    /\ form = "complete"
    /\ img = "image"
    /\ pts # <<>>
    /\ Cardinality({i \in 1..Len(pts) : pts[i][3] > 5}) >= 20
    /\ row # <<>>

PresentConnections ==
    SelectSeq(POSE_CONNECTIONS, LAMBDA cn : cn[1] < Len(pts) /\ cn[2] < Len(pts))

AdjustMessages(messages) ==
    SelectSeq(messages, LAMBDA m : m \in Range(JointNames))

\* C17 (as claimed): when a frame or image yields a detection failure or an
\* incomplete-visibility error, only the error message is surfaced for that
\* cycle: no per-joint comparison feedback is computed or published with it.
C17_ErrorSuppressesJointFeedback ==
    /\ (pc = "compare_pose_request"
        /\ response.error \in {"Could not detect pose in new image", "Full body not detected"}) =>
           /\ "compare" \notin Range(trace)
           /\ adjustments = <<>> /\ live_joint_feedback = <<>>
    /\ (pc \in {"poses", "with_login"} /\ pts = <<>>) =>
           /\ Len(latest_feedback) = 1 /\ AdjustMessages(latest_feedback) = <<>>
           /\ color_map = EmptyMap
    /\ (pc = "poses" /\ pts # <<>>
        /\ Cardinality({i \in 1..Len(pts) : pts[i][3] > 5}) < 15) =>
           /\ latest_feedback = <<"Body not fully visible">>
           /\ color_map = EmptyMap
           /\ "compare" \notin Range(trace)
    /\ (pc = "with_login" /\ pts # <<>>
        /\ Cardinality({i \in 1..Len(pts) : pts[i][3] > 8}) < 15) =>
           /\ latest_feedback = <<"Full body not fully visible">>
           /\ color_map = EmptyMap
           /\ "compare" \notin Range(trace)

\* C18: in compare_pose a detected capture with fewer than 60% of 33 landmarks
\* (that is, at most 19) of visibility above 0.5 is answered "Full body not
\* detected", which is not the answer of an image without a pose, and no angles
\* are computed for it; a capture with 20 or more goes on to the angles and the
\* reference.
C18_VisibilityGate ==
    (pc = "compare_pose_request" /\ form = "complete" /\ img = "image") =>
        IF pts = <<>>
        THEN response = [status |-> 400, error |-> "Could not detect pose in new image"]
        ELSE IF 10 * Cardinality({i \in 1..Len(pts) : pts[i][3] > 5}) < 6 * 33
        THEN /\ response = [status |-> 400, error |-> "Full body not detected"]
             /\ "angles" \notin Range(trace)
             /\ new_angles = EmptyMap /\ adjustments = <<>> /\ live_joint_feedback = <<>>
        ELSE /\ response.error \notin {"Full body not detected",
                                       "Could not detect pose in new image"}
             /\ "angles" \in Range(trace) /\ "reference" \in Range(trace)
             /\ "compare" \in Range(trace) <=> row # <<>>

\* C18 witness: 19 of 33 landmarks are visible (the others at exactly 0.5) and
\* the capture is rejected before any angle is computed.
C18_Witness ==
    /\ pc = "compare_pose_request"
    /\ Len(pts) = 33
    /\ Cardinality({i \in 1..Len(pts) : pts[i][3] > 5}) = 19
    /\ response = [status |-> 400, error |-> "Full body not detected"]
    /\ trace = <<"decode", "detect", "visibility">>

C20_UndecodableImageRejected ==
    (/\ pc \in {"compare_pose_request", "upload_pose_request", "handle_video_stream"}
     /\ img = NoneStr
     /\ form \in {"complete"}) =>
        /\ response.status = 400
        /\ "detect" \notin Range(trace) /\ "angles" \notin Range(trace)

-----------------------------------------------------------------------------
(* Properties of the camera threads *)

\* every text one frame can publish: its messages joined, or "Good posture"
WholeFrameTexts ==
    {IF FrameFeedbackList("poses", p, r) = <<>> THEN <<"Good posture">>
     ELSE FrameFeedbackList("poses", p, r) :
        p \in FrameSnapshots,
        r \in {<<>>} \cup {<<AppKeyAngles("poses", u)>> : u \in UploadSnapshots \ {<<>>}}}

\* C13: under every interleaving of the camera loop and feedback_text, the
\* publish and the read exclude each other through feedback_lock, and what a
\* reader gets is the initial value or the text one frame published whole.
C13_ReaderSeesWholeValue ==
    /\ ~(cam_pc \in {"publish", "release"} /\ reader_pc \in {"locked", "read"})
    /\ cam_pc \in {"publish", "release"} <=> feedback_lock = "camera"
    /\ reader_pc \in {"locked", "read"} <=> feedback_lock = "reader"
    /\ reader_pc = "read" => read_value \in {<<>>} \cup WholeFrameTexts

\* C13 witness: feedback_text returns the text of the first frame while the loop,
\* with another text ready for the second frame, waits for the lock.
C13_Witness ==
    /\ reader_pc = "read"
    /\ cam_pc = "acquire"
    /\ frames = 2
    /\ read_value # <<>>
    /\ read_value = last_published
    /\ feedback_list # read_value

\* C14: latest_feedback is the initial empty value until a frame publishes and
\* from then on the text of the frame that published last; feedback_text
\* returns exactly that.
C14_ReaderSeesLatestFrame ==
    /\ latest_feedback = last_published
    /\ (frames = 0 \/ (frames = 1 /\ cam_pc \in {"check", "compare", "acquire", "publish"}))
           => latest_feedback = <<>>
    /\ reader_pc = "read" => read_value = expected_read

\* C14 witness: two frames have published and feedback_text returns the text of
\* the second one.
C14_Witness ==
    /\ reader_pc = "read"
    /\ frames = 2
    /\ cam_pc = "idle"
    /\ read_value = <<"Body not fully visible">>
    /\ pts # <<>>
    /\ feedback_list = read_value

\* C15 (as claimed): a frame reads the active reference once, so the reference
\* its per-joint comparison iterates is the one its presence check saw.
C15_ReferenceReadOncePerFrame ==
    cam_pc \in {"acquire", "publish", "release"} => ref_used = ref_checked

\* C16 (as claimed): the reference is replaced as one unit, so the globals never
\* hold the landmark snapshot of one upload with the angle map of another.
C16_ReferenceReplacedAsUnit ==
    (reference_joints # <<>> /\ reference_angles # <<>>) =>
        reference_angles = <<AppKeyAngles("poses", reference_joints[1])>>

-----------------------------------------------------------------------------
(* Properties of the reported positions and of the positive message *)

\* the vertex of the triplet a program computes the angle of a joint from
VertexOf(triplets, name) == (CHOOSE t \in Range(triplets) : t[1] = name)[3]

\* C26 (as claimed): the position at which a joint's verdict is reported
\* (compare_pose live_feedback) or drawn (the circles of the camera loop of
\* poses/app.py) is the projection x * w, y * h of the vertex landmark of the
\* triplet that joint's angle is computed from.
C26_VerdictAtVertexLandmark ==
    /\ pc = "compare_pose_request" =>
           \A i \in 1..Len(live_joint_feedback) :
               LET e == live_joint_feedback[i]
                   v == VertexOf(AngleTriplets, e.joint_name)
               IN  /\ e.landmark = v
                   /\ e.x = pts[v + 1][1] * 640
                   /\ e.y = pts[v + 1][2] * 480
    /\ pc = "poses" =>
           \A key \in DOMAIN circles :
               LET v == VertexOf(PosesAngleTriplets, key)
               IN  /\ circles[key].landmark = v
                   /\ circles[key].x = pts[v + 1][1] * 640
                   /\ circles[key].y = pts[v + 1][2] * 480

\* C29 (as claimed): a camera loop publishes its positive message for a frame
\* only if a reference is set, a pose was detected and every joint present in
\* both the reference and the current angle map is within tolerance.
C29_GoodPostureNeedsReference ==
    (pc \in {"poses", "with_login"}
     /\ latest_feedback \in {<<"Good posture">>, <<"Good posture!">>}) =>
        /\ reference_angles # <<>>
        /\ pts # <<>>
        /\ \A j \in DOMAIN reference_angles[1] \cap DOMAIN AppKeyAngles(pc, pts) :
               color_map[j] = "green"

\* C25 (as claimed): in one compare_pose response the number of live_feedback
\* entries is the accuracy denominator, the number of entries with is_correct
\* true is the accuracy numerator, and a joint is in adjustments_needed exactly
\* when its live_feedback entry has is_correct false.
C25_OutputsAgree ==
    (pc = "compare_pose_request" /\ response.status = 200) =>
        /\ Len(live_joint_feedback) = total_joints
        /\ Cardinality({i \in 1..Len(live_joint_feedback) :
                           live_joint_feedback[i].is_correct}) = correct_joints
        /\ \A i \in 1..Len(live_joint_feedback) :
               live_joint_feedback[i].is_correct <=>
                   ~(\E k \in 1..Len(adjustments) :
                        adjustments[k].joint_name = live_joint_feedback[i].joint_name)
        /\ \A k \in 1..Len(adjustments) :
               \E i \in 1..Len(live_joint_feedback) :
                   live_joint_feedback[i].joint_name = adjustments[k].joint_name

-----------------------------------------------------------------------------
(* Properties of the reference stores *)

\* C22 (as claimed): a reference created by an upload under some identifier is
\* never changed afterwards: whatever uploads, selections and comparisons
\* follow, a lookup by that identifier yields what the creating upload stored.
C22_StoredReferenceImmutable ==
    \A n \in DOMAIN created :
        /\ n \in StoredNames(IDEAL_POSES)
        /\ IdealAngles(IDEAL_POSES, n) = created[n]

\* C28 (as claimed): after select_pose with a stored name p, every later
\* video_stream frame that shows a pose is compared against p until the next
\* select_pose with a stored name; connect, add_pose and select_pose with an
\* unknown name do not change the pose compared against.
C28_SelectionPersists ==
    (pc = "video_stream" /\ selected_pose # "" /\ pts # <<>>) =>
        compared_with = <<selected_pose>>

\* C24 (as claimed): a reference upload in which no pose is detected leaves the
\* active reference exactly as it was, in every program that keeps the active
\* reference in memory.
C24_FailedUploadKeepsReference ==
    [][(pc' \in {"poses_index", "demo_index", "add_pose"} /\ pts' = <<>>) =>
           /\ reference_joints' = reference_joints
           /\ reference_angles' = reference_angles
           /\ reference_points' = reference_points
           /\ IDEAL_POSES' = IDEAL_POSES
           /\ current_pose_name' = current_pose_name]_vars

-----------------------------------------------------------------------------
(* Properties of the frame loop, of the stored reference and of the temp file *)

\* C21 (as claimed): an unexpected failure while one frame is processed costs
\* that cycle only: the loop does not end, so the stream is never halted by a
\* bad frame.
C21_BadFrameDoesNotHaltStream == cam_pc # "halted"

\* C23 (as claimed): the stored reference holds, with its landmark snapshot, the
\* angle map computed from that same snapshot.
C23_StoredAnglesComeFromStoredSnapshot ==
    reference_joints # <<>> =>
        /\ reference_angles # <<>>
        /\ reference_angles[1] = AppKeyAngles("poses", reference_joints[1])

\* C27 (as claimed): with two compare_pose requests in flight, each request
\* decodes the image that was uploaded with it.
C27_RequestDecodesOwnImage ==
    \A i \in Requests :
        req_pc[i] = "respond" => req_decoded[i] = req_image[i]

====
